---- MODULE Spec2Model ----
(***************************************************************************)
(* Nutrition tracker: the conversational session state machine, the        *)
(* webhook that routes Telegram updates to it, and the meal assembly it    *)
(* calls.  Texts are sequences of one-character strings so that strip,     *)
(* split and the float/int conversions are computed, not assumed.          *)
(* Numbers that Python keeps as floats are exact rationals [n, d]; d = 0   *)
(* stands for the IEEE specials (n > 0: inf, n < 0: -inf, n = 0: nan).     *)
(***************************************************************************)
EXTENDS Integers, Sequences, FiniteSets, TLC

(* ------------------------------------------------------------------ *)
(* Bounds of the model                                                  *)
(* ------------------------------------------------------------------ *)
MaxSessions == 2
MaxMeals == 2
MaxFoods == 2
MaxWrites == 7
MaxWorkers == 3
MaxRanked == 3
MaxTime == 4
search_ttl_seconds == 2
food_ttl_seconds == 3
retry_attempts == 1

(* ------------------------------------------------------------------ *)
(* Rationals                                                            *)
(* ------------------------------------------------------------------ *)
RECURSIVE Gcd(_, _)
Gcd(a, b) == IF b = 0 THEN a ELSE Gcd(b, a % b)

Abs(x) == IF x < 0 THEN -x ELSE x

Rat(n, d) ==
  IF d = 0 THEN [n |-> IF n > 0 THEN 1 ELSE IF n < 0 THEN -1 ELSE 0, d |-> 0]
  ELSE LET g == Gcd(Abs(n), d) IN [n |-> n \div g, d |-> d \div g]

RInt(k) == [n |-> k, d |-> 1]
RZero == RInt(0)
RAdd(a, b) == Rat(a.n * b.d + b.n * a.d, a.d * b.d)
RMul(a, b) == Rat(a.n * b.n, a.d * b.d)
RPos(a) == a.n > 0

RECURSIVE Pow10(_)
Pow10(k) == IF k = 0 THEN 1 ELSE 10 * Pow10(k - 1)

(* ------------------------------------------------------------------ *)
(* Text primitives (Python str methods on character sequences)          *)
(* ------------------------------------------------------------------ *)
Digits == <<"0", "1", "2", "3", "4", "5", "6", "7", "8", "9">>
DigitSet == {Digits[i] : i \in 1..10}
DigitVal(c) == (CHOOSE i \in 1..10 : Digits[i] = c) - 1

UpperChars == <<"A", "C", "G", "I", "M", "N", "R", "S">>
LowerChars == <<"a", "c", "g", "i", "m", "n", "r", "s">>
LowerChar(c) ==
  IF \E i \in 1..Len(UpperChars) : UpperChars[i] = c
  THEN LowerChars[CHOOSE i \in 1..Len(UpperChars) : UpperChars[i] = c]
  ELSE c
Lower(s) == [i \in 1..Len(s) |-> LowerChar(s[i])]

IsSpace(c) == c = " "

RECURSIVE LStrip(_)
LStrip(s) == IF s # <<>> /\ IsSpace(Head(s)) THEN LStrip(Tail(s)) ELSE s
RECURSIVE RStrip(_)
RStrip(s) ==
  IF s # <<>> /\ IsSpace(s[Len(s)]) THEN RStrip(SubSeq(s, 1, Len(s) - 1)) ELSE s
Strip(s) == RStrip(LStrip(s))

StartsWith(s, p) == Len(s) >= Len(p) /\ SubSeq(s, 1, Len(p)) = p

(* str.replace(pat, ""): delete the occurrences of pat, left to right *)
RECURSIVE RemoveAll(_, _)
RemoveAll(s, pat) ==
  IF s = <<>> THEN <<>>
  ELSE IF StartsWith(s, pat) THEN RemoveAll(SubSeq(s, Len(pat) + 1, Len(s)), pat)
  ELSE <<Head(s)>> \o RemoveAll(Tail(s), pat)

ReplaceChar(s, from, to) == [i \in 1..Len(s) |-> IF s[i] = from THEN to ELSE s[i]]

(* str.split(sep) for a one-character separator: keeps empty chunks *)
RECURSIVE SplitOn(_, _, _)
SplitOn(s, sep, cur) ==
  IF s = <<>> THEN <<cur>>
  ELSE IF Head(s) = sep THEN <<cur>> \o SplitOn(Tail(s), sep, <<>>)
  ELSE SplitOn(Tail(s), sep, Append(cur, Head(s)))

(* str.split(): splits on runs of whitespace, no empty chunks *)
SplitWs(s) == SelectSeq(SplitOn(s, " ", <<>>), LAMBDA p : p # <<>>)

RECURSIVE StrToNat(_)
StrToNat(ds) ==
  IF ds = <<>> THEN 0
  ELSE 10 * StrToNat(SubSeq(ds, 1, Len(ds) - 1)) + DigitVal(ds[Len(ds)])

IsDigits(s) == \A i \in 1..Len(s) : s[i] \in DigitSet

DotPositions(s) == {i \in 1..Len(s) : s[i] = "."}

(* float(s) for the literals the sample texts use: optional sign, decimal
   digits with at most one point, inf / infinity / nan.  Exponents and
   underscores do not occur in the samples.  ok = FALSE is ValueError. *)
ParseFloat(raw) ==
  LET s == Strip(raw)
      signed == s # <<>> /\ s[1] \in {"+", "-"}
      sgn == IF s # <<>> /\ s[1] = "-" THEN -1 ELSE 1
      body == IF signed THEN Tail(s) ELSE s
      low == Lower(body)
      dots == DotPositions(body)
  IN IF low \in {<<"i", "n", "f">>, <<"i", "n", "f", "i", "n", "i", "t", "y">>}
       THEN [ok |-> TRUE, v |-> Rat(sgn, 0)]
     ELSE IF low = <<"n", "a", "n">> THEN [ok |-> TRUE, v |-> Rat(0, 0)]
     ELSE IF dots = {} THEN
       IF body # <<>> /\ IsDigits(body)
         THEN [ok |-> TRUE, v |-> Rat(sgn * StrToNat(body), 1)]
         ELSE [ok |-> FALSE, v |-> RZero]
     ELSE IF Cardinality(dots) = 1 THEN
       LET k == CHOOSE i \in dots : TRUE
           ip == SubSeq(body, 1, k - 1)
           fp == SubSeq(body, k + 1, Len(body))
       IN IF IsDigits(ip) /\ IsDigits(fp) /\ Len(ip) + Len(fp) > 0
            THEN [ok |-> TRUE,
                  v |-> Rat(sgn * (StrToNat(ip) * Pow10(Len(fp)) + StrToNat(fp)),
                            Pow10(Len(fp)))]
            ELSE [ok |-> FALSE, v |-> RZero]
     ELSE [ok |-> FALSE, v |-> RZero]

(* results of _parse_grams that are not a gram amount *)
NONE == -1
RAISED == -2

(* int(value) of a positive float: truncation; OverflowError on inf *)
_parse_grams(text) ==
  LET cleaned == Strip(RemoveAll(RemoveAll(Lower(Strip(text)),
                                           <<"g", "r", "a", "m", "s">>), <<"g">>))
      f == ParseFloat(cleaned)
  IN IF ~f.ok THEN NONE
     ELSE IF ~RPos(f.v) THEN NONE
     ELSE IF f.v.d = 0 THEN RAISED
     ELSE f.v.n \div f.v.d

(* _parse_macros: four floats or None (ok = FALSE) *)
_parse_macros(text) ==
  LET parts == SplitWs(ReplaceChar(text, ",", " "))
  IN IF Len(parts) # 4 THEN [ok |-> FALSE, m |-> <<>>]
     ELSE IF \E i \in 1..4 : ~ParseFloat(parts[i]).ok THEN [ok |-> FALSE, m |-> <<>>]
     ELSE [ok |-> TRUE, m |-> [i \in 1..4 |-> ParseFloat(parts[i]).v]]

_parse_item_list(text) ==
  LET chunks == SplitOn(text, ",", <<>>)
      stripped == [i \in 1..Len(chunks) |-> Strip(chunks[i])]
  IN SelectSeq(stripped, LAMBDA c : c # <<>>)


(* ------------------------------------------------------------------ *)
(* Sample data: users, texts, vision results, provider catalogue        *)
(* ------------------------------------------------------------------ *)
NULL == 0
Users == {1, 2}

STATUS_COMPLETED == "COMPLETED"
STATUS_CANCELLED == "CANCELLED"
ActiveStatusesWithoutItemConfirmation ==
  {"AWAITING_CONFIRMATION", "AWAITING_ITEM_LIST",
   "AWAITING_ITEM_SELECTION", "AWAITING_MANUAL_NAME", "AWAITING_MANUAL_STORE",
   "AWAITING_MANUAL_BASIS", "AWAITING_MANUAL_SERVING", "AWAITING_MANUAL_MACROS",
   "AWAITING_PORTION_CHOICE", "AWAITING_MANUAL_GRAMS", "AWAITING_SAVE",
   "AWAITING_EDIT_CHOICE", "AWAITING_EDIT_GRAMS", "EDIT_SELECT_ITEM",
   "EDIT_ENTER_GRAMS"}

(* the statuses get_active_session asks the table for *)
_ACTIVE_STATUSES ==
  {"AWAITING_CONFIRMATION", "AWAITING_ITEM_LIST", "AWAITING_ITEM_CONFIRMATION",
   "AWAITING_ITEM_SELECTION", "AWAITING_MANUAL_NAME", "AWAITING_MANUAL_STORE",
   "AWAITING_MANUAL_BASIS", "AWAITING_MANUAL_SERVING", "AWAITING_MANUAL_MACROS",
   "AWAITING_PORTION_CHOICE", "AWAITING_MANUAL_GRAMS", "AWAITING_SAVE",
   "AWAITING_EDIT_CHOICE", "AWAITING_EDIT_GRAMS", "EDIT_SELECT_ITEM",
   "EDIT_ENTER_GRAMS"}

TxtRice == <<"r", "i", "c", "e">>
TxtItem == <<"i", "t", "e", "m">>
TxtChicken == <<"C", "h", "i", "c", "k", "e", "n">>

(* texts a user may send *)
TextSamples ==
  { <<" ">>,                                          \* " "
    <<"8", "0", " ", "G">>,                           \* "80 G"
    <<"0">>,                                          \* "0"
    <<"i", "n", "f">>,                                \* "inf"
    <<"1", "5", "0", " ", "5", ",", "3", " ", "2", "7">> }  \* "150 5,3 27"

MacroZero == <<RZero, RZero, RZero, RZero>>
MacroOf(a, b, c, d) == <<RInt(a), RInt(b), RInt(c), RInt(d)>>

(* what the vision model may return for a photo *)
VisionItem(label, low, high) ==
  [label |-> label, low |-> low, high |-> high]
VisionSamples ==
  { <<VisionItem(TxtChicken, 100, 200)>>,
    <<VisionItem(TxtRice, 75, 100), VisionItem(TxtChicken, 100, 200)>> }

(* the nutrition database: summaries returned by search, details by get *)
FdcDetails(fdc_id) ==
  [description |-> TxtChicken, serving_size_g |-> NONE, macros |-> MacroOf(165, 31, 4, 0)]
FdcSummary(fdc_id) == [fdc_id |-> fdc_id, description |-> FdcDetails(fdc_id).description]

(* outcome of NutritionService.search: ok = FALSE is the exception left
   after the retries; otherwise the list of summaries *)
SearchOutcomes ==
  { [ok |-> FALSE, foods |-> <<>>],
    [ok |-> TRUE, foods |-> <<>>],
    [ok |-> TRUE, foods |-> <<FdcSummary(11)>>] }
(* outcome of NutritionService.get_food: FALSE is the exception *)
FetchOutcomes == BOOLEAN

(* the library when the first update arrives: user 1 has saved rice before,
   user 2 has saved nothing *)
SeedFood ==
  [user_id |-> 1, name |-> TxtRice, store |-> "None", source_type |-> "manual",
   source_ref |-> NULL, basis |-> "perServing", serving_size_g |-> 40,
   macros |-> MacroOf(150, 5, 3, 27), use_count |-> 0, last_used_at |-> NULL]
InitialLibrary == <<SeedFood>>


(* ------------------------------------------------------------------ *)
(* State                                                                *)
(* ------------------------------------------------------------------ *)
VARIABLES
  sessions,     \* photo_sessions table: sessions[id] = [user_id, photo_id, status, context]
  photos,       \* photos table: ids of the photo rows that exist
  photoSeq,     \* number of photo rows ever created (the next id is photoSeq + 1)
  library,      \* foods_user_library table: library[id]
  meal_logs,    \* meal_logs table: meal_logs[id] = [user_id, totals]
  meal_items,   \* meal_items table: meal_items[id]
  audit,        \* audit events, in the order recorded
  clock,        \* datetime.now(): ticks at every timestamp taken
  offered,      \* offered[id]: the buttons sent so far for session id; they stay
                \* in the chat and can be pressed at any later time
  writes,       \* number of writes to the photo_sessions table so far
  incs,         \* incs[w]: the increment_usage call that request w is making
  cache,        \* InMemoryCache._entries of the nutrition service
  call,         \* the NutritionService call in progress, or the last one made
  ranked,       \* the last call of LibraryService.search and what it returned
  parsed,       \* the last callback data the webhook received, and its parse
  lookup,       \* the last call of _resolve_base_macros and what it did
  flight,       \* flight[w]: the handler of request w suspended at an await
  update        \* the inbound update the webhook is handling

vars ==
  <<sessions, photos, photoSeq, library, meal_logs, meal_items, audit, clock,
    offered, writes, incs, cache, call, ranked, parsed, lookup, flight, update>>

(* ------------------------------------------------------------------ *)
(* Context blob and its parts; an absent key holds its .get() default   *)
(* ------------------------------------------------------------------ *)
NoFood ==
  [set |-> FALSE, name |-> <<>>, source_type |-> "", food_id |-> NULL,
   source_ref |-> NULL, basis |-> "", serving_size_g |-> NONE,
   macros |-> MacroZero, store |-> "None"]

NoManual ==
  [target |-> "", item_index |-> NONE, name |-> <<>>, store |-> "None",
   basis |-> "", serving_size_g |-> NONE]

ItemSpec(v) ==
  [label |-> v.label, low |-> v.low, high |-> v.high, food |-> NoFood,
   grams |-> NONE, skipped |-> FALSE]

BaseContext(flow, user_id) ==
  [flow |-> flow, user_id |-> user_id, items |-> <<>>, current_index |-> 0,
   resolved_items |-> <<>>, candidate_options |-> <<>>, manual |-> NoManual,
   edit_index |-> -1, meal_id |-> NULL, edit_items |-> <<>>,
   edit_item_id |-> NULL, edit_item_name |-> <<>>]

IsActive(s) == s.status \in _ACTIVE_STATUSES

SessionIds == 1..Len(sessions)

(* SessionRepository.get_session: NULL when there is no such row *)
get_session(session_id) ==
  IF session_id \in SessionIds THEN session_id ELSE NULL

(* SessionRepository.get_active_session: latest created active row *)
get_active_session(user_id) ==
  LET act == {i \in SessionIds : sessions[i].user_id = user_id /\ IsActive(sessions[i])}
  IN IF act = {} THEN NULL ELSE CHOOSE i \in act : \A j \in act : j <= i

InRange(seq, index) == 0 <= index /\ index < Len(seq)

_current_item(context) ==
  IF InRange(context.items, context.current_index)
    THEN context.items[context.current_index + 1]
    ELSE ItemSpec(VisionItem(<<>>, NONE, NONE))

_item_label(item) == IF item.label # <<>> THEN item.label ELSE TxtItem

(* round(): to nearest, ties to even, of the rational n / d >= 0 *)
Round(n, d) ==
  LET q == n \div d
      r == n % d
  IN IF 2 * r < d THEN q
     ELSE IF 2 * r > d THEN q + 1
     ELSE IF q % 2 = 0 THEN q ELSE q + 1

EstimateGramsTruncating(item) ==
  IF item.low # NONE /\ item.high # NONE /\ item.high > 0
    THEN (item.low + item.high) \div 2
  ELSE IF item.low # NONE /\ item.low > 0 THEN item.low
  ELSE NONE

_estimate_grams(item) ==
  IF item.low # NONE /\ item.high # NONE /\ item.high > 0
    THEN Round(item.low + item.high, 2)
  ELSE IF item.low # NONE /\ item.low > 0 THEN item.low
  ELSE NONE

(* the in-place updates of the current item; lost when the cursor is
   outside the list (_current_item then returns a fresh dict) *)
UpdateCurrent(context, item) ==
  IF InRange(context.items, context.current_index)
    THEN [context EXCEPT !.items[context.current_index + 1] = item]
    ELSE context

_record_current_grams(context, grams) ==
  UpdateCurrent(context, [_current_item(context) EXCEPT !.grams = grams])

_mark_skipped(context) ==
  UpdateCurrent(context, [_current_item(context) EXCEPT !.skipped = TRUE])

_set_item_food(context, option) ==
  UpdateCurrent(context,
    [_current_item(context) EXCEPT !.food =
      [set |-> TRUE,
       name |-> IF option.name # <<>> THEN option.name ELSE TxtItem,
       source_type |-> option.source_type,
       food_id |-> option.food_id,
       source_ref |-> option.source_ref,
       basis |-> IF option.basis # "" THEN option.basis ELSE "per100g",
       serving_size_g |-> option.serving_size_g,
       macros |-> option.macros,
       store |-> option.store]])


(* ------------------------------------------------------------------ *)
(* Library service                                                      *)
(* ------------------------------------------------------------------ *)
Contains(s, p) ==
  \E i \in 0..(Len(s) - Len(p)) : SubSeq(s, i + 1, i + Len(p)) = p

RECURSIVE SeqOfSet(_)
SeqOfSet(S) ==
  IF S = {} THEN <<>>
  ELSE LET m == CHOOSE x \in S : \A y \in S : x <= y
       IN <<m>> \o SeqOfSet(S \ {m})

Take(seq, k) == SubSeq(seq, 1, IF Len(seq) < k THEN Len(seq) ELSE k)

(* SupabaseLibraryRepository.search_foods: the user's rows whose name
   contains the query (ilike), in table order, cut to the limit *)
search_foods(user_id, query, limit) ==
  Take(SeqOfSet({i \in 1..Len(library) :
                   /\ library[i].user_id = user_id
                   /\ Contains(Lower(library[i].name), Lower(query))}), limit)

RankBeforeByUseCount(a, b) ==
  \/ library[a].use_count > library[b].use_count
  \/ /\ library[a].use_count = library[b].use_count
     /\ library[a].last_used_at >= library[b].last_used_at

(* sort key of LibraryService._rank: (last_used_at or datetime.min, use_count) *)
RankBefore(a, b) ==
  \/ library[a].last_used_at > library[b].last_used_at
  \/ /\ library[a].last_used_at = library[b].last_used_at
     /\ library[a].use_count >= library[b].use_count

(* sorted(..., reverse=True): descending and stable *)
RECURSIVE _rank(_)
_rank(ids) ==
  IF ids = <<>> THEN <<>>
  ELSE LET rest == _rank(SubSeq(ids, 1, Len(ids) - 1))
           x == ids[Len(ids)]
           k == Cardinality({i \in 1..Len(rest) : RankBefore(rest[i], x)})
       IN SubSeq(rest, 1, k) \o <<x>> \o SubSeq(rest, k + 1, Len(rest))

(* order("last_used_at", desc=True).order("use_count", desc=True): a
   descending order of the table puts the rows without last_used_at first;
   rows equal in both columns are taken in table order *)
TopBefore(a, b) ==
  IF library[a].last_used_at # library[b].last_used_at
    THEN library[a].last_used_at = NULL
           \/ (library[b].last_used_at # NULL
                 /\ library[a].last_used_at > library[b].last_used_at)
  ELSE IF library[a].use_count # library[b].use_count
    THEN library[a].use_count > library[b].use_count
  ELSE a < b

RECURSIVE SortTop(_)
SortTop(S) ==
  IF S = {} THEN <<>>
  ELSE LET m == CHOOSE x \in S : \A y \in S \ {x} : TopBefore(x, y)
       IN <<m>> \o SortTop(S \ {m})

(* SupabaseLibraryRepository.list_top_foods *)
list_top_foods(user_id, limit) ==
  Take(SortTop({i \in 1..Len(library) : library[i].user_id = user_id}), limit)

(* LibraryService.search *)
LibrarySearch(user_id, query, limit) ==
  IF query = <<>> THEN _rank(list_top_foods(user_id, limit))
  ELSE _rank(search_foods(user_id, query, limit))

(* LibraryService.find_by_source_ref has callers and a test double but no
   body in the sources: the first food of the user with that source *)
find_by_source_ref(lib, user_id, source_type, source_ref) ==
  LET hits == {i \in 1..Len(lib) :
                 /\ lib[i].user_id = user_id
                 /\ lib[i].source_type = source_type
                 /\ lib[i].source_ref = source_ref}
  IN IF hits = {} THEN NULL ELSE CHOOSE i \in hits : \A j \in hits : i <= j

(* LibraryRepository.create_food: the row a payload becomes *)
create_food(user_id, payload) ==
  [user_id |-> user_id, name |-> payload.name, store |-> payload.store,
   source_type |-> payload.source_type, source_ref |-> payload.source_ref,
   basis |-> payload.basis, serving_size_g |-> payload.serving_size_g,
   macros |-> payload.macros, use_count |-> 0, last_used_at |-> NULL]

IncrementUsageWithoutRead(lib, food_id, used_at) ==
  IF food_id \in 1..Len(lib)
    THEN [lib EXCEPT ![food_id].use_count = 1, ![food_id].last_used_at = used_at]
    ELSE lib

(* SupabaseLibraryRepository.increment_usage *)
increment_usage(lib, food_id, used_at) ==
  IF food_id \in 1..Len(lib)
    THEN [lib EXCEPT ![food_id].use_count = @ + 1, ![food_id].last_used_at = used_at]
    ELSE lib

(* ------------------------------------------------------------------ *)
(* Candidate options                                                    *)
(* ------------------------------------------------------------------ *)
LibraryOption(id) ==
  [type |-> "library", name |-> library[id].name, food_id |-> id, fdc_id |-> NULL,
   source_type |-> "library", source_ref |-> library[id].source_ref,
   basis |-> library[id].basis, serving_size_g |-> library[id].serving_size_g,
   macros |-> library[id].macros, store |-> library[id].store]

FdcOption(summary) ==
  [type |-> "fdc", name |-> summary.description, food_id |-> NULL,
   fdc_id |-> summary.fdc_id, source_type |-> "fdc", source_ref |-> NULL,
   basis |-> "", serving_size_g |-> NONE, macros |-> MacroZero, store |-> "None"]

ManualOption ==
  [type |-> "manual", name |-> <<>>, food_id |-> NULL, fdc_id |-> NULL,
   source_type |-> "", source_ref |-> NULL, basis |-> "",
   serving_size_g |-> NONE, macros |-> MacroZero, store |-> "None"]

BuildOptionsManualFirst(lib_ids, fdc) ==
  <<ManualOption>>
    \o [i \in 1..Len(lib_ids) |-> LibraryOption(lib_ids[i])]
    \o [i \in 1..Len(fdc) |-> FdcOption(fdc[i])]

_build_candidate_options(lib_ids, fdc) ==
  [i \in 1..Len(lib_ids) |-> LibraryOption(lib_ids[i])]
    \o [i \in 1..Len(fdc) |-> FdcOption(fdc[i])]
    \o <<ManualOption>>

EnsureCandidatesPropagating(context, srch) ==
  [context EXCEPT !.candidate_options =
     IF srch.ok
       THEN _build_candidate_options(
              LibrarySearch(context.user_id, _item_label(_current_item(context)), 3),
              srch.foods)
       ELSE <<>>]

(* _ensure_candidates: a failed provider search counts as no provider hits *)
_ensure_candidates(context, srch) ==
  [context EXCEPT !.candidate_options =
     _build_candidate_options(
       LibrarySearch(context.user_id, _item_label(_current_item(context)), 3),
       IF srch.ok THEN srch.foods ELSE <<>>)]


(* ------------------------------------------------------------------ *)
(* Session service: every transition returns what it persisted          *)
(* (upd = update_session was called), the prompt it returned, and the   *)
(* library rows it created                                              *)
(* ------------------------------------------------------------------ *)
Res(status, context, prompt) ==
  [upd |-> TRUE, status |-> status, context |-> context, reply |-> prompt,
   foods |-> <<>>, del |-> NULL, edit |-> NONE]

(* a return without a write: prompt "none" is `return None` *)
Ret(context, prompt) ==
  [upd |-> FALSE, status |-> "", context |-> context, reply |-> prompt,
   foods |-> <<>>, del |-> NULL, edit |-> NONE]

NoPayload == <<"<None>">>
PayloadSamples == {NoPayload, <<"0">>, <<"1">>, <<"x">>}

(* int(value): ok = FALSE is ValueError *)
_safe_int(value) ==
  LET s == Strip(value)
      signed == s # <<>> /\ s[1] \in {"+", "-"}
      body == IF signed THEN Tail(s) ELSE s
  IN IF body # <<>> /\ IsDigits(body)
       THEN [ok |-> TRUE, v |-> (IF s[1] = "-" THEN -1 ELSE 1) * StrToNat(body)]
       ELSE [ok |-> FALSE, v |-> 0]

_build_resolved_items(context) ==
  LET keep == {i \in 1..Len(context.items) :
                 /\ ~context.items[i].skipped
                 /\ context.items[i].food.set
                 /\ context.items[i].grams # NONE}
      ids == SeqOfSet(keep)
  IN [k \in 1..Len(ids) |->
        LET item == context.items[ids[k]]
        IN [item_index |-> ids[k] - 1,
            name |-> IF item.food.name # <<>> THEN item.food.name
                     ELSE _item_label(item),
            grams |-> item.grams,
            source_type |-> item.food.source_type,
            source_ref |-> item.food.source_ref,
            food_id |-> item.food.food_id,
            basis |-> item.food.basis,
            serving_size_g |-> item.food.serving_size_g,
            macros |-> item.food.macros,
            store |-> item.food.store]]

_show_summary(context) ==
  Res("AWAITING_SAVE",
      [context EXCEPT !.resolved_items = _build_resolved_items(context)], "summary")

_set_manual_target(context) ==
  Res("AWAITING_MANUAL_NAME",
      [context EXCEPT !.manual = [NoManual EXCEPT !.target = context.flow,
                                                  !.item_index = context.current_index]],
      "enter_name_for")

_prompt_item_confirmation(context, srch) ==
  LET c1 == IF context.items = <<>>
              THEN [context EXCEPT !.items = <<ItemSpec(VisionItem(TxtItem, NONE, NONE))>>]
              ELSE context
      c2 == _ensure_candidates(c1, srch)
      options == c2.candidate_options
  IN IF options = <<>> THEN Res("AWAITING_MANUAL_NAME", c2, "what_is_item")
     ELSE IF options[1].type = "manual" THEN _set_manual_target(c2)
     ELSE Res("AWAITING_ITEM_CONFIRMATION", c2, "use_this")

_prompt_item_selection(context) ==
  Res("AWAITING_ITEM_SELECTION", context, "select_item")

FetchedOption(option) ==
  [option EXCEPT !.basis = "per100g",
                 !.serving_size_g = FdcDetails(option.fdc_id).serving_size_g,
                 !.macros = FdcDetails(option.fdc_id).macros,
                 !.source_ref = option.fdc_id]

ApplySelectionWithoutDetails(context, index, fetch) ==
  LET options == context.candidate_options
  IN IF ~InRange(options, index) THEN Ret(context, "none")
     ELSE LET option == options[index + 1]
          IN IF option.type = "manual" THEN _set_manual_target(context)
             ELSE IF option.type = "library"
               THEN Res("AWAITING_PORTION_CHOICE", _set_item_food(context, option),
                        "portion")
             ELSE IF option.type = "fdc"
               THEN Res("AWAITING_PORTION_CHOICE",
                        _set_item_food(context,
                                       IF fetch THEN FetchedOption(option) ELSE option),
                        "portion")
             ELSE Ret(context, "none")

_apply_candidate_selection(context, index, fetch) ==
  LET options == context.candidate_options
  IN IF ~InRange(options, index) THEN Ret(context, "none")
     ELSE LET option == options[index + 1]
          IN IF option.type = "manual" THEN _set_manual_target(context)
             ELSE IF option.type = "library"
               THEN Res("AWAITING_PORTION_CHOICE", _set_item_food(context, option),
                        "portion")
             ELSE IF option.type = "fdc"
               THEN IF ~fetch
                      THEN [_prompt_item_selection(context) EXCEPT
                              !.reply = "lookup_timed_out"]
                      ELSE Res("AWAITING_PORTION_CHOICE",
                               _set_item_food(context, FetchedOption(option)),
                               "portion")
             ELSE Ret(context, "none")

_set_manual_basis(context, basis) ==
  LET c == [context EXCEPT !.manual.basis = basis]
  IN IF basis = "perServing"
       THEN Res("AWAITING_MANUAL_SERVING", c, "serving_size")
       ELSE Res("AWAITING_MANUAL_MACROS", c, "macros_per_100g")

StoreActions == {"store_costco", "store_tj", "store_target", "store_other"}
(* action.startswith("store_") over the action tags of the model *)
IsStoreAction(action) == action \in StoreActions

StoreOf(action) ==
  CASE action = "store_costco" -> "costco"
    [] action = "store_tj" -> "trader_joes"
    [] action = "store_target" -> "target"
    [] OTHER -> "None"

_set_manual_store(context, action) ==
  Res("AWAITING_MANUAL_BASIS", [context EXCEPT !.manual.store = StoreOf(action)],
      "per_basis")

AdvanceAlwaysSummarize(context, srch) ==
  _show_summary([context EXCEPT !.current_index = @ + 1])

_advance_or_summarize(context, srch) ==
  LET c == [context EXCEPT !.current_index = @ + 1]
  IN IF c.current_index < Len(c.items)
       THEN _prompt_item_confirmation(c, srch)
       ELSE _show_summary(c)

_apply_estimate(context, srch) ==
  LET estimate == _estimate_grams(_current_item(context))
  IN IF estimate = NONE
       THEN Res("AWAITING_MANUAL_GRAMS", context, "enter_grams_item")
       ELSE _advance_or_summarize(_record_current_grams(context, estimate), srch)

_apply_edit_grams(context, grams) ==
  IF InRange(context.resolved_items, context.edit_index)
    THEN LET source_index == context.resolved_items[context.edit_index + 1].item_index
             c == [context EXCEPT !.resolved_items[context.edit_index + 1].grams = grams]
         IN IF InRange(c.items, source_index)
              THEN [c EXCEPT !.items[source_index + 1].grams = grams]
              ELSE c
    ELSE context


ManualFoodPayloadPer100(context, macros) ==
  LET manual == context.manual
  IN [type |-> "manual",
      name |-> IF manual.name # <<>> THEN manual.name ELSE TxtItem,
      food_id |-> NULL, fdc_id |-> NULL, source_type |-> "manual",
      source_ref |-> NULL, basis |-> "per100g",
      serving_size_g |-> manual.serving_size_g,
      macros |-> macros, store |-> manual.store]

ManualFoodPayload(context, macros) ==
  LET manual == context.manual
  IN [type |-> "manual",
      name |-> IF manual.name # <<>> THEN manual.name ELSE TxtItem,
      food_id |-> NULL, fdc_id |-> NULL, source_type |-> "manual",
      source_ref |-> NULL,
      basis |-> IF manual.basis # "" THEN manual.basis ELSE "per100g",
      serving_size_g |-> manual.serving_size_g,
      macros |-> macros, store |-> manual.store]

FinalizeWithoutServing(context, macros) ==
  IF context.manual.target = "library"
    THEN [Res(STATUS_COMPLETED, context,
              IF context.flow = "library" THEN "saved_to_library" ELSE "portion")
            EXCEPT !.foods =
              <<create_food(context.user_id,
                            [ManualFoodPayload(context, macros)
                               EXCEPT !.serving_size_g = NONE])>>]
    ELSE Res("AWAITING_PORTION_CHOICE",
             _set_item_food(context, ManualFoodPayload(context, macros)), "portion")

(* _finalize_manual_entry with the prompt _handle_photo_text then returns *)
_finalize_manual_entry(context, macros) ==
  IF context.manual.target = "library"
    THEN [Res(STATUS_COMPLETED, context,
              IF context.flow = "library" THEN "saved_to_library" ELSE "portion")
            EXCEPT !.foods =
              <<create_food(context.user_id, ManualFoodPayload(context, macros))>>]
    ELSE Res("AWAITING_PORTION_CHOICE",
             _set_item_food(context, ManualFoodPayload(context, macros)), "portion")

_handle_photo_callback(session, action, payload, srch, fetch) ==
  LET context == session.context
      index == _safe_int(payload)
  IN IF action = "confirm"
       THEN _prompt_item_confirmation([context EXCEPT !.current_index = 0], srch)
     ELSE IF action = "fix" THEN Res("AWAITING_ITEM_LIST", context, "list_foods")
     ELSE IF action = "item_yes" THEN _apply_candidate_selection(context, 0, fetch)
     ELSE IF action = "item_no" THEN _prompt_item_selection(context)
     ELSE IF action = "choose" /\ payload # NoPayload
       THEN IF ~index.ok THEN Ret(context, "none")
            ELSE _apply_candidate_selection(context, index.v, fetch)
     ELSE IF action = "basis_100" THEN _set_manual_basis(context, "per100g")
     ELSE IF action = "basis_serv" THEN _set_manual_basis(context, "perServing")
     ELSE IF IsStoreAction(action) THEN _set_manual_store(context, action)
     ELSE IF action = "portion_est" THEN _apply_estimate(context, srch)
     ELSE IF action = "portion_manual"
       THEN Res("AWAITING_MANUAL_GRAMS", context, "enter_grams_for")
     ELSE IF action = "portion_skip"
       THEN _advance_or_summarize(_mark_skipped(context), srch)
     ELSE IF action = "edit" THEN Res("AWAITING_EDIT_CHOICE", context, "which_edit")
     ELSE IF action = "edit_item" /\ payload # NoPayload
       THEN IF ~index.ok THEN Ret(context, "none")
            ELSE Res("AWAITING_EDIT_GRAMS", [context EXCEPT !.edit_index = index.v],
                     "enter_new_grams")
     ELSE Ret(context, "none")

_handle_photo_text(session, text, srch) ==
  LET context == session.context
      status == session.status
      grams == _parse_grams(text)
      macros == _parse_macros(text)
      items == _parse_item_list(text)
  IN IF status = "AWAITING_ITEM_LIST"
       THEN IF items = <<>> THEN Ret(context, "send_comma_list")
            ELSE _prompt_item_confirmation(
                   [context EXCEPT
                      !.items = [i \in 1..Len(items) |->
                                   ItemSpec(VisionItem(items[i], NONE, NONE))],
                      !.current_index = 0], srch)
     ELSE IF status = "AWAITING_MANUAL_NAME"
       THEN IF Strip(text) = <<>> THEN Ret(context, "provide_name")
            ELSE Res("AWAITING_MANUAL_STORE",
                     [context EXCEPT !.manual.name = Strip(text)], "which_store")
     ELSE IF status = "AWAITING_MANUAL_STORE" THEN Ret(context, "choose_store")
     ELSE IF status = "AWAITING_MANUAL_SERVING"
       THEN IF grams = RAISED THEN Ret(context, "error")
            ELSE IF grams = NONE THEN Ret(context, "serving_size")
            ELSE Res("AWAITING_MANUAL_MACROS",
                     [context EXCEPT !.manual.serving_size_g = grams],
                     "macros_per_serving")
     ELSE IF status = "AWAITING_MANUAL_MACROS"
       THEN IF ~macros.ok THEN Ret(context, "enter_macros")
            ELSE _finalize_manual_entry(context, macros.m)
     ELSE IF status = "AWAITING_MANUAL_GRAMS"
       THEN IF grams = RAISED THEN Ret(context, "error")
            ELSE IF grams = NONE THEN Ret(context, "reply_number_of_grams")
            ELSE _advance_or_summarize(_record_current_grams(context, grams), srch)
     ELSE IF status = "AWAITING_EDIT_GRAMS"
       THEN IF grams = RAISED THEN Ret(context, "error")
            ELSE IF grams = NONE THEN Ret(context, "reply_grams")
            ELSE _show_summary(_apply_edit_grams(context, grams))
     ELSE Ret(context, "none")

_handle_library_callback(session, action) ==
  LET context == session.context
  IN IF action = "basis_100" THEN _set_manual_basis(context, "per100g")
     ELSE IF action = "basis_serv" THEN _set_manual_basis(context, "perServing")
     ELSE IF IsStoreAction(action) THEN _set_manual_store(context, action)
     ELSE Ret(context, "none")

_handle_library_text(session, text, srch) ==
  IF session.status \in {"AWAITING_MANUAL_NAME", "AWAITING_MANUAL_BASIS",
                         "AWAITING_MANUAL_SERVING", "AWAITING_MANUAL_MACROS"}
    THEN _handle_photo_text(session, text, srch)
    ELSE Ret(session.context, "none")

_edit_item_id(context, index) ==
  IF InRange(context.edit_items, index) THEN context.edit_items[index + 1].id ELSE NULL

_edit_item_name(context, index) ==
  IF InRange(context.edit_items, index) THEN context.edit_items[index + 1].name
  ELSE TxtItem

_handle_edit_callback(session, action, payload) ==
  LET context == session.context
      index == _safe_int(payload)
  IN IF action = "edit_item" /\ payload # NoPayload
       THEN IF ~index.ok THEN Ret(context, "none")
            ELSE Res("EDIT_ENTER_GRAMS",
                     [context EXCEPT !.edit_item_id = _edit_item_id(context, index.v),
                                     !.edit_item_name = _edit_item_name(context, index.v)],
                     "enter_new_grams")
     ELSE Ret(context, "none")


(* ------------------------------------------------------------------ *)
(* Meal assembly                                                        *)
(* ------------------------------------------------------------------ *)
PortionAlwaysPer100(base, grams, basis, serving_size_g) ==
  IF grams <= 0 THEN MacroZero
  ELSE [i \in 1..4 |-> RMul(base[i], Rat(grams, 100))]

PortionIntegerFactor(base, grams, basis, serving_size_g) ==
  IF grams <= 0 THEN MacroZero
  ELSE LET factor == IF basis = "perServing" /\ serving_size_g # NONE
                        /\ serving_size_g > 0
                       THEN RInt(grams \div serving_size_g)
                       ELSE RInt(grams \div 100)
       IN [i \in 1..4 |-> RMul(base[i], factor)]

_compute_portion_macros(base, grams, basis, serving_size_g) ==
  IF grams <= 0 THEN MacroZero
  ELSE LET factor == IF basis = "perServing" /\ serving_size_g # NONE
                        /\ serving_size_g > 0
                       THEN Rat(grams, serving_size_g)
                       ELSE Rat(grams, 100)
       IN [i \in 1..4 |-> RMul(base[i], factor)]

MacroAdd(a, b) == [i \in 1..4 |-> RAdd(a[i], b[i])]

RECURSIVE _sum_totals(_)
_sum_totals(items) ==
  IF items = <<>> THEN MacroZero
  ELSE MacroAdd(_sum_totals(SubSeq(items, 1, Len(items) - 1)), items[Len(items)].macros)

RECURSIVE EnsureRefsLeavingUnlinked(_, _, _)
EnsureRefsLeavingUnlinked(lib, items, user_id) ==
  IF items = <<>> THEN [lib |-> lib, items |-> <<>>]
  ELSE LET done == EnsureRefsLeavingUnlinked(lib, SubSeq(items, 1, Len(items) - 1),
                                             user_id)
           item == items[Len(items)]
           source_type == IF item.source_type # "" THEN item.source_type ELSE "manual"
           existing == IF item.source_ref # NULL
                         THEN find_by_source_ref(done.lib, user_id, source_type,
                                                 item.source_ref)
                         ELSE NULL
           payload == [name |-> IF item.name # <<>> THEN item.name ELSE TxtItem,
                       store |-> item.store, source_type |-> source_type,
                       source_ref |-> item.source_ref,
                       basis |-> IF item.basis # "" THEN item.basis ELSE "per100g",
                       serving_size_g |-> item.serving_size_g,
                       macros |-> item.macros]
       IN IF item.food_id # NULL \/ source_type = "library" \/ existing # NULL
            THEN [lib |-> done.lib, items |-> Append(done.items, item)]
          ELSE [lib |-> Append(done.lib, create_food(user_id, payload)),
                items |-> Append(done.items, item)]

(* _ensure_library_refs: gives every item a food_id, creating the library
   rows that are missing; returns the library and the items *)
RECURSIVE _ensure_library_refs(_, _, _)
_ensure_library_refs(lib, items, user_id) ==
  IF items = <<>> THEN [lib |-> lib, items |-> <<>>]
  ELSE LET done == _ensure_library_refs(lib, SubSeq(items, 1, Len(items) - 1), user_id)
           item == items[Len(items)]
           source_type == IF item.source_type # "" THEN item.source_type ELSE "manual"
           existing == IF item.source_ref # NULL
                         THEN find_by_source_ref(done.lib, user_id, source_type,
                                                 item.source_ref)
                         ELSE NULL
           payload == [name |-> IF item.name # <<>> THEN item.name ELSE TxtItem,
                       store |-> item.store, source_type |-> source_type,
                       source_ref |-> item.source_ref,
                       basis |-> IF item.basis # "" THEN item.basis ELSE "per100g",
                       serving_size_g |-> item.serving_size_g,
                       macros |-> item.macros]
       IN IF item.food_id # NULL \/ source_type = "library"
            THEN [lib |-> done.lib, items |-> Append(done.items, item)]
          ELSE IF existing # NULL
            THEN [lib |-> done.lib,
                  items |-> Append(done.items, [item EXCEPT !.food_id = existing])]
          ELSE [lib |-> Append(done.lib, create_food(user_id, payload)),
                items |-> Append(done.items,
                                 [item EXCEPT !.food_id = Len(done.lib) + 1])]

(* one MealItemSnapshot of _build_snapshots; session items always carry
   their macros, so _resolve_base_macros takes them from the item *)
Snapshot(item) ==
  LET basis == IF item.basis # "" THEN item.basis ELSE "per100g"
  IN [name |-> IF item.name # <<>> THEN item.name ELSE TxtItem,
      grams |-> item.grams,
      macros |-> _compute_portion_macros(item.macros, item.grams, basis,
                                         item.serving_size_g),
      food_id |-> item.food_id,
      nutrition_snapshot |->
        [basis |-> basis, serving_size_g |-> item.serving_size_g,
         macros |-> item.macros, source_type |-> item.source_type,
         source_ref |-> item.source_ref]]

BuildSnapshotsDroppingLast(items) ==
  [i \in 1..(Len(items) - 1) |-> Snapshot(items[i])]

_build_snapshots(items) == [i \in 1..Len(items) |-> Snapshot(items[i])]

(* the usage increments of save_meal, one timestamp each *)
RECURSIVE RecordUses(_, _, _)
RecordUses(lib, snapshots, now) ==
  IF snapshots = <<>> THEN lib
  ELSE LET n == Len(snapshots)
           before == RecordUses(lib, SubSeq(snapshots, 1, n - 1), now)
           used == Cardinality({i \in 1..(n - 1) : snapshots[i].food_id # NULL})
       IN IF snapshots[n].food_id # NULL
            THEN increment_usage(before, snapshots[n].food_id, now + used + 1)
            ELSE before

UsesCount(snapshots) ==
  Cardinality({i \in 1..Len(snapshots) : snapshots[i].food_id # NULL})

(* the tables the meal service reads and writes *)
Tables ==
  [library |-> library, meal_logs |-> meal_logs, meal_items |-> meal_items,
   clock |-> clock]

(* create_meal_log: the row with the totals of the snapshots *)
WithMealLog(db, user_id, snapshots) ==
  [db EXCEPT
     !.meal_logs = Append(@, [user_id |-> user_id, logged_at |-> db.clock + 1,
                              totals |-> _sum_totals(snapshots)]),
     !.clock = db.clock + 1]

(* create_meal_items: one row per snapshot, for the meal log just written *)
WithMealItems(db, snapshots) ==
  [db EXCEPT !.meal_items =
     @ \o [i \in 1..Len(snapshots) |->
             [meal_log_id |-> Len(db.meal_logs),
              food_id |-> snapshots[i].food_id,
              name |-> snapshots[i].name,
              grams |-> snapshots[i].grams,
              macros |-> snapshots[i].macros,
              nutrition_snapshot |-> snapshots[i].nutrition_snapshot]]]

(* the first k usage increments *)
WithUses(db, snapshots, used, k) ==
  [db EXCEPT !.library = RecordUses(@, SubSeq(snapshots, 1, used[k]), db.clock),
             !.clock = @ + k]

(* the writes after _ensure_library_refs and _build_snapshots *)
SaveMealSteps(db, user_id, lib, snapshots) ==
  LET created == Len(lib) - Len(db.library)
      used == SeqOfSet({i \in 1..Len(snapshots) : snapshots[i].food_id # NULL})
      withLog == WithMealLog([db EXCEPT !.library = lib], user_id, snapshots)
      withItems == WithMealItems(withLog, snapshots)
  IN [foods |-> [j \in 1..created |->
                   [op |-> "create_food",
                    db |-> [db EXCEPT !.library = SubSeq(lib, 1, Len(db.library) + j)]]],
      log |-> <<[op |-> "create_meal_log", db |-> withLog]>>,
      rows |-> IF snapshots = <<>> THEN <<>>
               ELSE <<[op |-> "create_meal_items", db |-> withItems]>>,
      uses |-> [k \in 1..Len(used) |->
                  [op |-> "increment_usage",
                   db |-> WithUses(withItems, snapshots, used, k)]]]

SaveMealWithRefs(db, user_id, refs) ==
  SaveMealSteps(db, user_id, refs.lib, _build_snapshots(refs.items))

(* the writes of MealLogService.save_meal, each with the tables after it:
   the library rows that _ensure_library_refs creates, the meal log row,
   the meal item rows (one insert, none for an empty list), and one usage
   increment per snapshot with a food_id *)
save_meal_parts(db, user_id, items) ==
  SaveMealWithRefs(db, user_id, _ensure_library_refs(db.library, items, user_id))

SaveMealUsageBeforeItems(db, user_id, items) ==
  LET parts == save_meal_parts(db, user_id, items)
  IN parts.foods \o parts.log \o parts.uses \o parts.rows

(* MealLogService.save_meal, write by write, in the order of the code *)
save_meal_writes(db, user_id, items) ==
  LET parts == save_meal_parts(db, user_id, items)
  IN parts.foods \o parts.log \o parts.rows \o parts.uses

(* MealLogService.save_meal: the tables after the last write *)
save_meal(user_id, items) ==
  LET done == save_meal_writes(Tables, user_id, items)
  IN done[Len(done)].db

list_meal_items(items, meal_log_id) ==
  SelectSeq(items, LAMBDA it : it.meal_log_id = meal_log_id)

MealItemIds(meal_log_id) ==
  SeqOfSet({i \in 1..Len(meal_items) : meal_items[i].meal_log_id = meal_log_id})

UpdateGramsKeepingTotals(db, meal_item_id, grams) ==
  IF meal_item_id \notin 1..Len(db.meal_items)
    THEN [found |-> FALSE, meal_items |-> db.meal_items, meal_logs |-> db.meal_logs]
    ELSE LET item == db.meal_items[meal_item_id]
             snap == item.nutrition_snapshot
             updated == _compute_portion_macros(
                          snap.macros, grams,
                          IF snap.basis # "" THEN snap.basis ELSE "per100g",
                          snap.serving_size_g)
         IN [found |-> item.meal_log_id \in 1..Len(db.meal_logs),
             meal_items |-> [db.meal_items EXCEPT ![meal_item_id].grams = grams,
                                                  ![meal_item_id].macros = updated],
             meal_logs |-> db.meal_logs]

UpdateGramsRescalingCurrent(db, meal_item_id, grams) ==
  IF meal_item_id \notin 1..Len(db.meal_items)
    THEN [found |-> FALSE, meal_items |-> db.meal_items, meal_logs |-> db.meal_logs]
    ELSE LET item == db.meal_items[meal_item_id]
             updated == IF grams <= 0 \/ item.grams <= 0 THEN MacroZero
                        ELSE [i \in 1..4 |->
                                RMul(item.macros[i], Rat(grams, item.grams))]
             items2 == [db.meal_items EXCEPT ![meal_item_id].grams = grams,
                                             ![meal_item_id].macros = updated]
             totals == _sum_totals(list_meal_items(items2, item.meal_log_id))
         IN [found |-> item.meal_log_id \in 1..Len(db.meal_logs),
             meal_items |-> items2,
             meal_logs |-> IF item.meal_log_id \in 1..Len(db.meal_logs)
                             THEN [db.meal_logs EXCEPT
                                     ![item.meal_log_id].totals = totals]
                             ELSE db.meal_logs]

(* MealLogService.update_meal_item_grams: found = FALSE is `return None` *)
update_meal_item_grams_in(db, meal_item_id, grams) ==
  IF meal_item_id \notin 1..Len(db.meal_items)
    THEN [found |-> FALSE, meal_items |-> db.meal_items, meal_logs |-> db.meal_logs]
    ELSE LET item == db.meal_items[meal_item_id]
             snap == item.nutrition_snapshot
             updated == _compute_portion_macros(
                          snap.macros, grams,
                          IF snap.basis # "" THEN snap.basis ELSE "per100g",
                          snap.serving_size_g)
             items2 == [db.meal_items EXCEPT ![meal_item_id].grams = grams,
                                             ![meal_item_id].macros = updated]
             totals == _sum_totals(list_meal_items(items2, item.meal_log_id))
         IN [found |-> item.meal_log_id \in 1..Len(db.meal_logs),
             meal_items |-> items2,
             meal_logs |-> IF item.meal_log_id \in 1..Len(db.meal_logs)
                             THEN [db.meal_logs EXCEPT
                                     ![item.meal_log_id].totals = totals]
                             ELSE db.meal_logs]

update_meal_item_grams(meal_item_id, grams) ==
  update_meal_item_grams_in(Tables, meal_item_id, grams)

ItemSnapshotOf(it) == [name |-> it.name, grams |-> it.grams, macros |-> it.macros]


(* ------------------------------------------------------------------ *)
(* Session service entry points                                         *)
(* ------------------------------------------------------------------ *)
CancelKeepsPhoto(session) ==
  Res(STATUS_CANCELLED, session.context, "cancelled")

CancelDeletesPhotoOnly(session) ==
  [Ret(session.context, "cancelled") EXCEPT !.del = session.photo_id]

(* SessionService._cancel_session: del is the photo row it deletes *)
_cancel_session(session) ==
  [Res(STATUS_CANCELLED, session.context, "cancelled") EXCEPT !.del = session.photo_id]

EditItemSnapshotOfFirst(context, item_id) ==
  IF context.edit_items = <<>> THEN <<>>
  ELSE <<ItemSnapshotOf(context.edit_items[1])>>

_edit_item_snapshot(context, item_id) ==
  LET hits == {i \in 1..Len(context.edit_items) : context.edit_items[i].id = item_id}
  IN IF hits = {} THEN <<>>
     ELSE <<ItemSnapshotOf(context.edit_items[CHOOSE i \in hits : \A j \in hits : i <= j])>>

(* SessionService._handle_edit_text: edit is the grams it writes to the meal
   item context.edit_item_id *)
_handle_edit_text(session, text) ==
  LET context == session.context
      grams == _parse_grams(text)
      item_id == context.edit_item_id
  IN IF session.status # "EDIT_ENTER_GRAMS" THEN Ret(context, "none")
     ELSE IF grams = RAISED THEN Ret(context, "error")
     ELSE IF grams = NONE THEN Ret(context, "reply_grams")
     ELSE IF item_id = NULL THEN Ret(context, "none")
     ELSE [Res(STATUS_COMPLETED, context,
               IF update_meal_item_grams(item_id, grams).found
                 THEN "meal_updated" ELSE "unable_to_update")
             EXCEPT !.edit = grams]

NoSession == Ret(BaseContext("", NULL), "none")

HandleCallbackIgnoringStatus(session_id, action, payload, srch, fetch) ==
  IF get_session(session_id) = NULL THEN NoSession
  ELSE LET session == sessions[session_id]
       IN IF action = "cancel" THEN _cancel_session(session)
          ELSE IF session.context.flow = "photo"
            THEN _handle_photo_callback(session, action, payload, srch, fetch)
          ELSE IF session.context.flow = "edit"
            THEN _handle_edit_callback(session, action, payload)
          ELSE _handle_library_callback(session, action)

(* SessionService.handle_callback *)
handle_callback(session_id, action, payload, srch, fetch) ==
  IF get_session(session_id) = NULL THEN NoSession
  ELSE LET session == sessions[session_id]
           flow == session.context.flow
       IN IF session.status \in {STATUS_COMPLETED, STATUS_CANCELLED}
            THEN Ret(session.context, "none")
          ELSE IF action = "cancel" THEN _cancel_session(session)
          ELSE IF flow = "photo"
            THEN _handle_photo_callback(session, action, payload, srch, fetch)
          ELSE IF flow = "edit" THEN _handle_edit_callback(session, action, payload)
          ELSE IF flow = "library" THEN _handle_library_callback(session, action)
          ELSE Ret(session.context, "none")

(* SessionService.handle_text *)
handle_text(user_id, text, srch) ==
  IF get_active_session(user_id) = NULL THEN NoSession
  ELSE LET session == sessions[get_active_session(user_id)]
           flow == session.context.flow
       IN IF flow = "photo" THEN _handle_photo_text(session, text, srch)
          ELSE IF flow = "library" THEN _handle_library_text(session, text, srch)
          ELSE IF flow = "edit" THEN _handle_edit_text(session, text)
          ELSE Ret(session.context, "none")

CancelLatestSession(user_id) ==
  LET own == {i \in SessionIds : sessions[i].user_id = user_id}
  IN IF own = {} THEN NoSession
     ELSE _cancel_session(sessions[CHOOSE i \in own : \A j \in own : j <= i])

(* SessionService.cancel_active_session *)
cancel_active_session(user_id) ==
  IF get_active_session(user_id) = NULL THEN NoSession
  ELSE _cancel_session(sessions[get_active_session(user_id)])

(* create_session / update_session: one more write *)
Wrote ==
  /\ writes < MaxWrites
  /\ writes' = writes + 1

Button(action) == <<action, NoPayload>>
IndexButtons(action, n) == {<<action, <<Digits[i]>>>> : i \in 1..n}

(* the inline keyboard sent with a prompt *)
ButtonsOf(r) ==
  CASE r.reply = "use_this" -> {Button("item_yes"), Button("item_no")}
    [] r.reply \in {"select_item", "lookup_timed_out"} ->
         IndexButtons("choose", Len(r.context.candidate_options))
    [] r.reply = "portion" ->
         (IF _estimate_grams(_current_item(r.context)) \in {NONE, 0} THEN {}
          ELSE {Button("portion_est")})
           \cup {Button("portion_manual"), Button("portion_skip")}
    [] r.reply = "which_store" -> {Button(a) : a \in StoreActions}
    [] r.reply = "per_basis" -> {Button("basis_100"), Button("basis_serv")}
    [] r.reply = "summary" -> {Button("save"), Button("edit"), Button("cancel")}
    [] r.reply = "which_edit" ->
         IndexButtons("edit_item", Len(r.context.resolved_items))
    [] OTHER -> {}

(* the audit event _handle_edit_text records after the update *)
AuditEvent(session, item_id, items) ==
  [user_id |-> session.user_id, entity_id |-> item_id, event_type |-> "update_grams",
   before |-> _edit_item_snapshot(session.context, item_id),
   after |-> <<ItemSnapshotOf(items[item_id])>>]

(* what a handler's result does to the tables; a result that raised
   ("error") wrote nothing before the raise *)
ApplyRows(session_id, r) ==
       LET session == sessions[session_id]
           item_id == session.context.edit_item_id
           upd == update_meal_item_grams(item_id, r.edit)
       IN /\ (r.foods # <<>> => Len(library) + Len(r.foods) <= MaxFoods)
          /\ sessions' = IF r.upd
                           THEN [sessions EXCEPT ![session_id].status = r.status,
                                                 ![session_id].context = r.context]
                           ELSE sessions
          /\ photos' = photos \ {r.del}
          /\ library' = library \o r.foods
          /\ meal_items' = IF r.edit # NONE THEN upd.meal_items ELSE meal_items
          /\ meal_logs' = IF r.edit # NONE THEN upd.meal_logs ELSE meal_logs
          /\ audit' = IF r.edit # NONE /\ upd.found
                        THEN Append(audit, AuditEvent(session, item_id, upd.meal_items))
                        ELSE audit
          /\ offered' = [offered EXCEPT ![session_id] = @ \cup ButtonsOf(r)]
          /\ IF r.upd THEN Wrote ELSE UNCHANGED writes
          /\ UNCHANGED <<photoSeq, clock>>

Apply(session_id, r) ==
  IF r.reply = "error" \/ session_id = NULL THEN UNCHANGED vars
  ELSE /\ ApplyRows(session_id, r)
       /\ UNCHANGED <<incs, cache, call, ranked, parsed, lookup, flight, update>>

(* ------------------------------------------------------------------ *)
(* Webhook deliveries                                                   *)
(* ------------------------------------------------------------------ *)
NewSession(user_id, photo_id, status, context) ==
  [user_id |-> user_id, photo_id |-> photo_id, status |-> status, context |-> context]

(* SessionService.start_session: create_photo, then create_session *)
StartSessionRows(user_id, vision_items) ==
  /\ Len(sessions) < MaxSessions
  /\ Wrote
  /\ photoSeq' = photoSeq + 1
  /\ photos' = photos \cup {photoSeq + 1}
  /\ sessions' = Append(sessions,
       NewSession(user_id, photoSeq + 1, "AWAITING_CONFIRMATION",
                  [BaseContext("photo", user_id) EXCEPT
                     !.items = [i \in 1..Len(vision_items) |-> ItemSpec(vision_items[i])]]))
  /\ offered' = Append(offered, {Button("confirm"), Button("fix"), Button("cancel")})
  /\ UNCHANGED <<library, meal_logs, meal_items, audit, clock>>

start_session(user_id, vision_items) ==
  /\ StartSessionRows(user_id, vision_items)
  /\ UNCHANGED <<incs, cache, call, ranked, parsed, lookup, flight, update>>

PhotoOutcomes == {"download_failed", "vision_failed", "ok"}

(* telegram_webhook, a message with a photo: the guard, the download, the
   vision call, then start_session *)
PhotoMessage(user_id, outcome, vision_items) ==
  IF get_active_session(user_id) # NULL \/ outcome # "ok" THEN UNCHANGED vars
  ELSE start_session(user_id, vision_items)

(* SessionService.start_library_add_session *)
start_library_add_session(user_id) ==
  /\ Len(sessions) < MaxSessions
  /\ Wrote
  /\ sessions' = Append(sessions,
       NewSession(user_id, NULL, "AWAITING_MANUAL_NAME",
                  [BaseContext("library", user_id) EXCEPT !.manual.target = "library"]))
  /\ offered' = Append(offered, {})
  /\ UNCHANGED <<photos, photoSeq, library, meal_logs, meal_items, audit, clock>>
  /\ UNCHANGED <<incs, cache, call, ranked, parsed, lookup, flight, update>>

(* telegram_webhook, the lib:add button *)
LibraryAddCallback(user_id) ==
  IF get_active_session(user_id) # NULL THEN UNCHANGED vars
  ELSE start_library_add_session(user_id)

EditItems(meal_log_id) ==
  LET ids == MealItemIds(meal_log_id)
  IN [i \in 1..Len(ids) |->
        [id |-> ids[i], name |-> meal_items[ids[i]].name,
         grams |-> meal_items[ids[i]].grams, macros |-> meal_items[ids[i]].macros]]

(* SessionService.start_edit_session: no meal log, no session *)
start_edit_session(user_id, meal_log_id) ==
  IF meal_log_id \notin 1..Len(meal_logs) THEN UNCHANGED vars
  ELSE /\ Len(sessions) < MaxSessions
       /\ Wrote
       /\ sessions' = Append(sessions,
            NewSession(user_id, NULL, "EDIT_SELECT_ITEM",
                       [BaseContext("edit", user_id) EXCEPT
                          !.meal_id = meal_log_id,
                          !.edit_items = EditItems(meal_log_id)]))
       /\ offered' = Append(offered,
                            IndexButtons("edit_item", Len(EditItems(meal_log_id))))
       /\ UNCHANGED <<photos, photoSeq, library, meal_logs, meal_items, audit, clock>>
       /\ UNCHANGED <<incs, cache, call, ranked, parsed, lookup, flight, update>>

(* telegram_webhook, the e:<meal> button *)
EditCallback(user_id, meal_log_id) ==
  IF get_active_session(user_id) # NULL THEN UNCHANGED vars
  ELSE start_edit_session(user_id, meal_log_id)

(* telegram_webhook, the save button: the session is looked up by id and
   saved whatever its status *)
SaveCallback(session_id) ==
  IF get_session(session_id) = NULL THEN UNCHANGED vars
  ELSE LET session == sessions[session_id]
           saved == save_meal(session.user_id, session.context.resolved_items)
       IN /\ Len(meal_logs) < MaxMeals
          /\ Len(saved.library) <= MaxFoods
          /\ Wrote
          /\ library' = saved.library
          /\ meal_logs' = saved.meal_logs
          /\ meal_items' = saved.meal_items
          /\ clock' = saved.clock
          /\ photos' = photos \ {session.photo_id}
          /\ sessions' = [sessions EXCEPT ![session_id].status = STATUS_COMPLETED]
          /\ UNCHANGED <<photoSeq, audit, offered>>
          /\ UNCHANGED <<incs, cache, call, ranked, parsed, lookup, flight, update>>

(* telegram_webhook, every other s:<session>:<action>[:<payload>] button *)
SessionCallback(session_id, action, payload, srch, fetch) ==
  Apply(get_session(session_id),
        handle_callback(session_id, action, payload, srch, fetch))

(* telegram_webhook, a text message that is not a command *)
TextMessage(user_id, text, srch) ==
  Apply(get_active_session(user_id), handle_text(user_id, text, srch))

(* telegram_webhook, the /cancel command *)
CancelCommand(user_id) ==
  Apply(get_active_session(user_id), cancel_active_session(user_id))

CallbackActions ==
  {"confirm", "fix", "cancel", "item_yes", "item_no", "choose", "basis_100",
   "basis_serv", "store_other", "portion_est", "portion_manual",
   "portion_skip", "edit", "edit_item"}

(* the payload a button carries: only choose and edit_item buttons have one *)
PayloadsOf(action) ==
  IF action \in {"choose", "edit_item"} THEN PayloadSamples ELSE {NoPayload}

EmptySearch == [ok |-> TRUE, foods |-> <<>>]

(* the provider calls a button's handler can make: a search when it leads
   to _prompt_item_confirmation, a detail fetch when it selects a candidate *)
SearchesOf(action) ==
  IF action \in {"confirm", "portion_est", "portion_skip"} THEN SearchOutcomes
  ELSE {EmptySearch}

(* a text leads to a search from the item list and from the manual grams *)
TextSearches(user_id) ==
  IF get_active_session(user_id) = NULL THEN {EmptySearch}
  ELSE IF sessions[get_active_session(user_id)].status
            \in {"AWAITING_ITEM_LIST", "AWAITING_MANUAL_GRAMS"}
    THEN SearchOutcomes
  ELSE {EmptySearch}

FetchesOf(action) ==
  IF action \in {"item_yes", "choose"} THEN FetchOutcomes ELSE {TRUE}

(* requests that may be in LibraryService.record_use at the same time *)
Workers == 1..MaxWorkers

(* no increment_usage call under way *)
NoIncrement == [pc |-> "idle", food_id |-> NULL, used_at |-> NULL, current |-> 0]

(* InMemoryCache.__init__: no entries *)
NoEntries == [k \in {} |-> NULL]

(* no NutritionService call made yet *)
NoCall ==
  [pc |-> "idle", args |-> <<>>, key |-> <<>>, ttl |-> 0, attempt |-> 0,
   calls |-> 0, result |-> <<>>]

(* LibraryService.search not called yet *)
NoSearch ==
  [done |-> FALSE, user_id |-> NULL, query |-> <<>>, limit |-> 0,
   items |-> <<>>, result |-> <<>>]

(* _resolve_base_macros not called yet *)
NoLookup ==
  [done |-> FALSE, item |-> <<>>, searches |-> <<>>, fetches |-> <<>>,
   result |-> <<>>]

(* no handler suspended *)
NoFlight ==
  [pc |-> "idle", user_id |-> NULL, session_id |-> NULL, action |-> "",
   items |-> <<>>, session |-> <<>>]

(* parse_allowed_user_ids returning None: no allow-list, everybody passes *)
NoAllowList == [all |-> TRUE, ids |-> {}]

(* no update received yet; allowed is create_app's allowed_user_ids *)
NoUpdate == [from_user |-> NULL, kind |-> "", reply |-> "", allowed |-> NoAllowList]

(* no callback data received yet *)
NoData ==
  [sent |-> FALSE, session_id |-> NULL, action |-> "", payload |-> <<>>,
   data |-> <<>>,
   result |-> [ok |-> FALSE, session_id |-> <<>>, action |-> <<>>, payload |-> <<>>]]

Init ==
  /\ sessions = <<>>
  /\ photos = {}
  /\ photoSeq = 0
  /\ library = InitialLibrary
  /\ meal_logs = <<>>
  /\ meal_items = <<>>
  /\ audit = <<>>
  /\ clock = 0
  /\ offered = <<>>
  /\ writes = 0
  /\ incs = [w \in Workers |-> NoIncrement]
  /\ cache = NoEntries
  /\ call = NoCall
  /\ ranked = NoSearch
  /\ parsed = NoData
  /\ lookup = NoLookup
  /\ flight = [w \in Workers |-> NoFlight]
  /\ update = NoUpdate

(* a button can be pressed once it has been sent; a session id that has no
   row can still arrive in callback data *)
Pressable(session_id, action, payload) ==
  IF get_session(session_id) = NULL THEN TRUE
  ELSE <<action, payload>> \in offered[session_id]

Next ==
  \/ \E user_id \in Users, outcome \in PhotoOutcomes, vision_items \in VisionSamples :
       PhotoMessage(user_id, outcome, vision_items)
  \/ \E user_id \in Users : LibraryAddCallback(user_id)
  \/ \E user_id \in Users, meal_log_id \in 1..MaxMeals :
       EditCallback(user_id, meal_log_id)
  \/ \E session_id \in 1..MaxSessions :
       Pressable(session_id, "save", NoPayload) /\ SaveCallback(session_id)
  \/ \E session_id \in 1..MaxSessions, action \in CallbackActions :
       \E payload \in PayloadsOf(action), srch \in SearchesOf(action),
          fetch \in FetchesOf(action) :
         /\ Pressable(session_id, action, payload)
         /\ SessionCallback(session_id, action, payload, srch, fetch)
  \/ \E user_id \in Users, text \in TextSamples :
       \E srch \in TextSearches(user_id) : TextMessage(user_id, text, srch)
  \/ \E user_id \in Users : CancelCommand(user_id)

Spec == Init /\ [][Next]_vars


(* ------------------------------------------------------------------ *)
(* The meal service called directly, as its callers and tests call it   *)
(* ------------------------------------------------------------------ *)
(* grams an item can be set to: update_meal_item_grams takes any float *)
GramsSamples == {-5, 0, 40, 80}

(* an entry of resolved_items, as _build_resolved_items writes it *)
ResolvedItem(option, grams) ==
  [item_index |-> 0, name |-> option.name, grams |-> grams,
   source_type |-> option.source_type, source_ref |-> option.source_ref,
   food_id |-> option.food_id, basis |-> option.basis,
   serving_size_g |-> option.serving_size_g, macros |-> option.macros,
   store |-> option.store]

(* a manually entered food, as _finalize_manual_entry sets it on the item *)
ManualSamples ==
  { [ManualOption EXCEPT !.name = TxtItem, !.source_type = "manual",
                         !.basis = basis, !.serving_size_g = serving_size_g,
                         !.macros = MacroOf(150, 5, 3, 27)] :
      basis \in {"per100g", "perServing"}, serving_size_g \in {NONE, 0, 40} }

(* the item lists a summary can hold for the user: foods of the user's
   library, the external-database food with its details, manual foods *)
MealSamples(user_id) ==
  LET own == {id \in 1..Len(library) : library[id].user_id = user_id}
      fdc == ResolvedItem(FetchedOption(FdcOption(FdcSummary(11))), 150)
      lib == {ResolvedItem(LibraryOption(id), 80) : id \in own}
      manual == {ResolvedItem(option, 40) : option \in ManualSamples}
  IN {<<>>} \cup {<<item>> : item \in lib \cup manual \cup {fdc}}
       \cup {<<item, fdc>> : item \in lib \cup {fdc}}

(* MealLogService.save_meal called with the items of a summary *)
SaveMealCall(user_id, items) ==
  LET saved == save_meal(user_id, items)
  IN /\ Len(meal_logs) < MaxMeals
     /\ Len(saved.library) <= MaxFoods
     /\ library' = saved.library
     /\ meal_logs' = saved.meal_logs
     /\ meal_items' = saved.meal_items
     /\ clock' = saved.clock
     /\ UNCHANGED <<sessions, photos, photoSeq, audit, offered, writes>>
     /\ UNCHANGED <<incs, cache, call, ranked, parsed, lookup, flight, update>>

(* MealLogService.update_meal_item_grams called for a meal item id *)
UpdateGramsCall(meal_item_id, grams) ==
  LET upd == update_meal_item_grams(meal_item_id, grams)
  IN /\ meal_items' = upd.meal_items
     /\ meal_logs' = upd.meal_logs
     /\ UNCHANGED <<sessions, photos, photoSeq, library, audit, clock, offered,
                    writes>>
     /\ UNCHANGED <<incs, cache, call, ranked, parsed, lookup, flight, update>>

NextService ==
  \/ \E user_id \in Users : \E items \in MealSamples(user_id) :
       SaveMealCall(user_id, items)
  \/ \E meal_item_id \in 1..(2 * MaxMeals + 1), grams \in GramsSamples :
       UpdateGramsCall(meal_item_id, grams)

SpecService == Init /\ [][NextService]_vars


(* ------------------------------------------------------------------ *)
(* The webhook after a meal has been saved: user 2 sent a photo of rice *)
(* and chicken, confirmed, took the first provider hit and the estimate *)
(* for both items and pressed save                                      *)
(* ------------------------------------------------------------------ *)
(* _build_candidate_options: user 2 has no library food, the provider
   returns one hit *)
SavedPhotoOptions == <<FdcOption(FdcSummary(11)), ManualOption>>

(* the context of that session when save is pressed *)
SavedPhotoContext ==
  LET vision_items == <<VisionItem(TxtRice, 75, 100), VisionItem(TxtChicken, 100, 200)>>
      c0 == [BaseContext("photo", 2) EXCEPT
               !.items = [i \in 1..Len(vision_items) |-> ItemSpec(vision_items[i])],
               !.candidate_options = SavedPhotoOptions]
      c1 == _set_item_food(c0, FetchedOption(SavedPhotoOptions[1]))
      c2 == [_record_current_grams(c1, _estimate_grams(_current_item(c1)))
               EXCEPT !.current_index = 1]
      c3 == _set_item_food(c2, FetchedOption(SavedPhotoOptions[1]))
      c4 == [_record_current_grams(c3, _estimate_grams(_current_item(c3)))
               EXCEPT !.current_index = 2]
  IN _show_summary(c4).context

(* the tables after save_meal of that session *)
SavedPhotoTables ==
  LET done == save_meal_writes([library |-> InitialLibrary, meal_logs |-> <<>>,
                                meal_items |-> <<>>, clock |-> 0],
                               2, SavedPhotoContext.resolved_items)
  IN done[Len(done)].db

(* session writes followed after the save: enough to start an edit, choose
   an item, choose again and enter the grams, or to start another flow *)
EditWrites == 5

InitEdit ==
  /\ sessions = <<NewSession(2, 1, STATUS_COMPLETED, SavedPhotoContext)>>
  /\ photos = {}
  /\ photoSeq = 1
  /\ library = SavedPhotoTables.library
  /\ meal_logs = SavedPhotoTables.meal_logs
  /\ meal_items = SavedPhotoTables.meal_items
  /\ audit = <<>>
  /\ clock = SavedPhotoTables.clock
  /\ offered = << {Button("confirm"), Button("fix"), Button("cancel"),
                   Button("item_yes"), Button("item_no"), Button("portion_est"),
                   Button("portion_manual"), Button("portion_skip"),
                   Button("save"), Button("edit")} >>
  /\ writes = MaxWrites - EditWrites
  /\ incs = [w \in Workers |-> NoIncrement]
  /\ cache = NoEntries
  /\ call = NoCall
  /\ ranked = NoSearch
  /\ parsed = NoData
  /\ lookup = NoLookup
  /\ flight = [w \in Workers |-> NoFlight]
  /\ update = NoUpdate

SpecEdit == InitEdit /\ [][Next]_vars

(* ------------------------------------------------------------------ *)
(* Properties                                                           *)
(* ------------------------------------------------------------------ *)
NonTerminal(session) == session.status \notin {"COMPLETED", "CANCELLED"}

ActiveSessionsOf(user_id) ==
  {i \in SessionIds : sessions[i].user_id = user_id /\ NonTerminal(sessions[i])}

(* C1: every user has at most one session whose status is outside
   {COMPLETED, CANCELLED}; a step that creates a session creates it for a
   user who has no such session, and changes no existing session row, so a
   start-flow request (photo, lib:add, e:<meal>) that arrives while the user
   has an active session creates nothing and leaves that session alone. *)
C1_SingleActiveSession ==
  /\ [](\A user_id \in Users : Cardinality(ActiveSessionsOf(user_id)) <= 1)
  /\ [][Len(sessions') > Len(sessions) =>
          /\ Len(sessions') = Len(sessions) + 1
          /\ ActiveSessionsOf(sessions'[Len(sessions')].user_id) = {}
          /\ SubSeq(sessions', 1, Len(sessions)) = sessions]_vars

(* both users are in the middle of a session, the first one past its first
   prompt: a start request of either user now meets the guard, not a bound *)
C1_Witness ==
  /\ Len(sessions) = 2
  /\ sessions[1].user_id # sessions[2].user_id
  /\ NonTerminal(sessions[1])
  /\ NonTerminal(sessions[2])
  /\ sessions[1].status # "AWAITING_CONFIRMATION"
  /\ writes < MaxWrites

(* C2 helpers: the provider found something for the current item *)
HasCandidate(context, srch) ==
  LET options == _ensure_candidates(context, srch).candidate_options
  IN options # <<>> /\ options[1].type # "manual"

HasRange(item) == item.low # NONE /\ item.high # NONE /\ item.high > 0

MidpointGrams(item, grams, exact) ==
  IF exact THEN 2 * grams = item.low + item.high
  ELSE grams = Round(item.low + item.high, 2)

ResolvedByEstimate(item, exact) ==
  item.food.set /\ ~item.skipped /\ MidpointGrams(item, item.grams, exact)

(* one step of the script confirm, (yes, use estimate)^n from the session's
   present state, with the given provider outcomes *)
ScriptStep(session_id, srch, fetch, exact) ==
  LET session == sessions[session_id]
      context == session.context
      k == context.current_index
      n == Len(context.items)
      confirm == handle_callback(session_id, "confirm", NoPayload, srch, fetch)
      yes == handle_callback(session_id, "item_yes", NoPayload, srch, fetch)
      est == handle_callback(session_id, "portion_est", NoPayload, srch, fetch)
  IN (/\ context.flow = "photo"
      /\ n >= 1
      /\ \A i \in 1..n : HasRange(context.items[i]))
     =>
     /\ (session.status = "AWAITING_CONFIRMATION"
           /\ HasCandidate([context EXCEPT !.current_index = 0], srch))
          => /\ confirm.upd
             /\ confirm.status = "AWAITING_ITEM_CONFIRMATION"
             /\ confirm.context.current_index = 0
     /\ session.status = "AWAITING_ITEM_CONFIRMATION"
          => yes.upd /\ yes.status = "AWAITING_PORTION_CHOICE"
     /\ (session.status = "AWAITING_PORTION_CHOICE" /\ InRange(context.items, k))
          => /\ est.upd
             /\ MidpointGrams(context.items[k + 1],
                              est.context.items[k + 1].grams, exact)
             /\ (k + 1 < n) =>
                  /\ est.status # "AWAITING_SAVE"
                  /\ HasCandidate(est.context, srch) =>
                       /\ est.status = "AWAITING_ITEM_CONFIRMATION"
                       /\ est.context.current_index = k + 1
             /\ (k + 1 = n) =>
                  /\ est.status = "AWAITING_SAVE"
                  /\ (\A i \in 1..n : ResolvedByEstimate(est.context.items[i], exact))
                       => /\ Len(est.context.resolved_items) = n
                          /\ \A i \in 1..n :
                               MidpointGrams(context.items[i],
                                             est.context.resolved_items[i].grams, exact)

(* C2 (as stated): whatever the detail fetch does, 'yes' leads to the
   portion choice, and the recorded grams are the exact midpoints *)
C2_Original ==
  \A session_id \in SessionIds, srch \in SearchOutcomes, fetch \in FetchOutcomes :
    ScriptStep(session_id, srch, fetch, TRUE)

(* C2 (amended): for a photo session whose n >= 1 items each carry a gram
   range with a positive upper bound, with a non-manual candidate for every
   item and every detail fetch succeeding, confirm then n rounds of (yes,
   use estimate) go AWAITING_CONFIRMATION -> (AWAITING_ITEM_CONFIRMATION ->
   AWAITING_PORTION_CHOICE) n times -> AWAITING_SAVE, reaching AWAITING_SAVE
   exactly after the n-th round with n resolved items whose grams are the
   midpoints rounded to an integer, halves to the even one (88 for 75/100) *)
C2_ScriptedPhotoFlow ==
  \A session_id \in SessionIds, srch \in SearchOutcomes :
    ScriptStep(session_id, srch, TRUE, FALSE)

(* two items, both confirmed and estimated, now awaiting the save *)
C2_Witness ==
  \E session_id \in SessionIds :
    LET context == sessions[session_id].context
    IN /\ sessions[session_id].status = "AWAITING_SAVE"
       /\ Len(context.items) = 2
       /\ context.current_index = 2
       /\ Len(context.resolved_items) = 2
       /\ context.resolved_items[1].grams = 88
       /\ context.resolved_items[2].grams = 150

(* C3: a save on a session in AWAITING_SAVE persists exactly one meal log,
   owned by the session's user, with exactly one meal item per entry of
   resolved_items, deletes the linked photo and completes the session *)
C3_SaveFromAwaitingSave ==
  [][\A session_id \in SessionIds :
       (sessions[session_id].status = "AWAITING_SAVE" /\ SaveCallback(session_id))
       => LET session == sessions[session_id]
              n == Len(session.context.resolved_items)
          IN /\ Len(meal_logs') = Len(meal_logs) + 1
             /\ SubSeq(meal_logs', 1, Len(meal_logs)) = meal_logs
             /\ meal_logs'[Len(meal_logs')].user_id = session.user_id
             /\ Len(meal_items') = Len(meal_items) + n
             /\ SubSeq(meal_items', 1, Len(meal_items)) = meal_items
             /\ \A i \in (Len(meal_items) + 1)..Len(meal_items') :
                  meal_items'[i].meal_log_id = Len(meal_logs')
             /\ session.photo_id \notin photos'
             /\ sessions'[session_id].status = "COMPLETED"]_vars

(* a photo session completed by a save of two resolved items *)
C3_Witness ==
  \E session_id \in SessionIds :
    /\ sessions[session_id].status = "COMPLETED"
    /\ sessions[session_id].context.flow = "photo"
    /\ Len(sessions[session_id].context.resolved_items) = 2
    /\ Len(meal_logs) = 1
    /\ Len(meal_items) = 2
    /\ sessions[session_id].photo_id \notin photos

(* C4: a save delivered for a session that is already COMPLETED or
   CANCELLED creates no meal log and no meal item, changes no usage
   counter and leaves the status what it was; a CANCELLED session never
   becomes COMPLETED *)
C4_SaveOnTerminalIsNoOp ==
  [][\A session_id \in SessionIds :
       /\ (sessions[session_id].status \in {"COMPLETED", "CANCELLED"}
             /\ SaveCallback(session_id))
            => UNCHANGED <<meal_logs, meal_items, library, sessions>>
       /\ sessions[session_id].status = "CANCELLED"
            => sessions'[session_id].status = "CANCELLED"]_vars


(* a result that wrote nothing and sent nothing *)
IsNoOp(r) ==
  /\ ~r.upd
  /\ r.reply = "none"
  /\ r.del = NULL
  /\ r.foods = <<>>
  /\ r.edit = NONE

(* C5: from every non-terminal status of every flow a cancel, by the
   session's cancel button or by /cancel, deletes the linked photo when
   there is one, sets the status to CANCELLED and leaves the context
   unchanged; without a linked photo it still cancels, without an error *)
C5_CancelFromAnyState ==
  /\ [](\A session_id \in SessionIds :
          NonTerminal(sessions[session_id]) =>
            LET session == sessions[session_id]
                button == handle_callback(session_id, "cancel", NoPayload,
                                          EmptySearch, TRUE)
                command == cancel_active_session(session.user_id)
            IN /\ button = command
               /\ button.upd
               /\ button.status = "CANCELLED"
               /\ button.context = session.context
               /\ button.del = session.photo_id
               /\ button.reply = "cancelled")
  /\ [][\A session_id \in SessionIds :
          (/\ NonTerminal(sessions[session_id])
           /\ \/ SessionCallback(session_id, "cancel", NoPayload, EmptySearch, TRUE)
              \/ CancelCommand(sessions[session_id].user_id))
          => /\ sessions'[session_id].status = "CANCELLED"
             /\ sessions'[session_id].context = sessions[session_id].context
             /\ sessions[session_id].photo_id \notin photos'
             /\ photos' \subseteq photos]_vars

(* a photo session cancelled after its first prompt, its photo gone, and a
   session without a photo cancelled too *)
C5_Witness ==
  \E a \in SessionIds, b \in SessionIds :
    /\ sessions[a].status = "CANCELLED"
    /\ sessions[a].photo_id # NULL
    /\ sessions[a].photo_id \notin photos
    /\ sessions[a].context.candidate_options # <<>>
    /\ sessions[b].status = "CANCELLED"
    /\ sessions[b].photo_id = NULL

(* C6: cancel_active_session for a user with no active session returns no
   prompt and modifies no session and no photo; after a cancel the user has
   no active session, so a second cancel leaves the state of the first *)
C6_CancelIdempotent ==
  /\ [](\A user_id \in Users :
          ActiveSessionsOf(user_id) = {} => IsNoOp(cancel_active_session(user_id)))
  /\ [][\A user_id \in Users :
          (ActiveSessionsOf(user_id) # {} /\ CancelCommand(user_id))
          => /\ (ActiveSessionsOf(user_id))' = {}
             /\ IsNoOp(cancel_active_session(user_id))']_vars

(* a user whose only session has been cancelled *)
C6_Witness ==
  \E user_id \in Users, session_id \in SessionIds :
    /\ sessions[session_id].user_id = user_id
    /\ sessions[session_id].status = "CANCELLED"
    /\ ActiveSessionsOf(user_id) = {}

(* C7: handle_callback for a session id without a row or with a terminal
   status, and handle_text for a user with no active session, return no
   prompt, raise nothing and change no session, photo, meal or library row *)
C7_NoOpOnMissingOrTerminal ==
  /\ \A session_id \in 1..MaxSessions :
       (session_id \notin SessionIds \/ ~NonTerminal(sessions[session_id]))
       => \A action \in CallbackActions, srch \in SearchOutcomes,
             fetch \in FetchOutcomes, payload \in PayloadSamples :
            IsNoOp(handle_callback(session_id, action, payload, srch, fetch))
  /\ \A user_id \in Users :
       ActiveSessionsOf(user_id) = {}
       => \A text \in TextSamples, srch \in SearchOutcomes :
            IsNoOp(handle_text(user_id, text, srch))

(* a completed session whose Yes and estimate buttons are still in the
   chat, and whose user has no other session *)
C7_Witness ==
  \E session_id \in SessionIds :
    /\ sessions[session_id].status = "COMPLETED"
    /\ <<"item_yes", NoPayload>> \in offered[session_id]
    /\ <<"portion_est", NoPayload>> \in offered[session_id]
    /\ ActiveSessionsOf(sessions[session_id].user_id) = {}
    /\ Len(sessions) < MaxSessions

(* C8: for every session created with a linked photo, the photo row exists
   while the session is active and is gone once the session is COMPLETED or
   CANCELLED *)
C8_PhotoLifetime ==
  \A session_id \in SessionIds :
    sessions[session_id].photo_id # NULL
    => IF NonTerminal(sessions[session_id])
         THEN sessions[session_id].photo_id \in photos
         ELSE sessions[session_id].photo_id \notin photos

(* one photo session completed and one cancelled, both photos gone *)
C8_Witness ==
  /\ Len(sessions) = 2
  /\ sessions[1].photo_id # NULL
  /\ sessions[2].photo_id # NULL
  /\ sessions[1].status = "COMPLETED"
  /\ sessions[2].status = "CANCELLED"
  /\ photos = {}

(* texts that are no positive number of grams, no line of four numbers,
   no name and no item list *)
BlankText == <<" ">>
NoGramsTexts ==
  {<<" ">>, <<"0">>, <<"i", "n", "f">>,
   <<"1", "5", "0", " ", "5", ",", "3", " ", "2", "7">>}
NoMacrosTexts == {<<" ">>, <<"0">>, <<"i", "n", "f">>, <<"8", "0", " ", "G">>}

UnparseableIn(status) ==
  CASE status \in {"AWAITING_ITEM_LIST", "AWAITING_MANUAL_NAME"} -> {BlankText}
    [] status \in {"AWAITING_MANUAL_SERVING", "AWAITING_MANUAL_GRAMS",
                   "AWAITING_EDIT_GRAMS", "EDIT_ENTER_GRAMS"} -> NoGramsTexts
    [] status = "AWAITING_MANUAL_MACROS" -> NoMacrosTexts
    [] OTHER -> {}

(* C9: in every text-accepting state an unparseable text returns a
   re-prompt, raises nothing and leaves the persisted status and context
   as they were *)
C9_UnparseableTextReprompts ==
  \A user_id \in Users :
    get_active_session(user_id) # NULL
    => \A text \in UnparseableIn(sessions[get_active_session(user_id)].status)
                     \cap TextSamples,
          srch \in SearchOutcomes :
         LET r == handle_text(user_id, text, srch)
         IN /\ r.reply \notin {"error", "none"}
            /\ ~r.upd
            /\ r.foods = <<>>
            /\ r.edit = NONE

(* the library candidates of an item followed by the manual option *)
LibraryThenManual(options, user_id, label) ==
  LET hits == LibrarySearch(user_id, label, 3)
  IN /\ Len(options) = Len(hits) + 1
     /\ \A i \in 1..Len(hits) :
          options[i].type = "library" /\ options[i].food_id = hits[i]
     /\ options[Len(options)].type = "manual"

(* C10: when the nutrition-database search raises during the per-item
   confirmation, the step still returns a prompt and raises nothing; the
   candidate options are the library candidates followed by the manual
   option, and the session is persisted in AWAITING_ITEM_CONFIRMATION when
   a library candidate exists, in AWAITING_MANUAL_NAME when none does *)
C10_DegradedCandidateSearch ==
  \A session_id \in SessionIds :
    LET session == sessions[session_id]
        label == _item_label(_current_item(
                   [session.context EXCEPT !.current_index = 0]))
        r == handle_callback(session_id, "confirm", NoPayload,
                             [ok |-> FALSE, foods |-> <<>>], TRUE)
    IN (/\ NonTerminal(session)
        /\ session.context.flow = "photo"
        /\ session.context.items # <<>>)
       => /\ r.reply \notin {"error", "none"}
          /\ r.upd
          /\ LibraryThenManual(r.context.candidate_options, session.user_id, label)
          /\ r.status = IF LibrarySearch(session.user_id, label, 3) # <<>>
                          THEN "AWAITING_ITEM_CONFIRMATION"
                          ELSE "AWAITING_MANUAL_NAME"

(* user 1's rice, confirmed with only the library to go by *)
C10_Witness ==
  \E session_id \in SessionIds :
    LET context == sessions[session_id].context
    IN /\ sessions[session_id].status = "AWAITING_ITEM_CONFIRMATION"
       /\ Len(context.candidate_options) = 2
       /\ context.candidate_options[1].type = "library"
       /\ context.candidate_options[2].type = "manual"

(* C11: when the detail fetch for an accepted external-database candidate
   fails ('choose' in AWAITING_ITEM_SELECTION or 'yes' in
   AWAITING_ITEM_CONFIRMATION), nothing is raised, the reply is the
   selection list with the lookup notice, the persisted status is
   AWAITING_ITEM_SELECTION (never AWAITING_PORTION_CHOICE) and the context
   is what it was: the current item's food, current_index and the
   candidate options are unchanged *)
C11_DetailFetchFailure ==
  \A session_id \in SessionIds :
    LET session == sessions[session_id]
        context == session.context
        options == context.candidate_options
        Failed(r) ==
          /\ r.reply = "lookup_timed_out"
          /\ r.upd
          /\ r.status = "AWAITING_ITEM_SELECTION"
          /\ r.context = context
          /\ r.context.items = context.items
          /\ r.context.current_index = context.current_index
          /\ r.context.candidate_options = options
          /\ r.foods = <<>>
          /\ r.del = NULL
          /\ ButtonsOf(r) = IndexButtons("choose", Len(options))
    IN session.context.flow = "photo" =>
         /\ (/\ session.status = "AWAITING_ITEM_CONFIRMATION"
             /\ InRange(options, 0)
             /\ options[1].type = "fdc")
              => Failed(handle_callback(session_id, "item_yes", NoPayload,
                                        EmptySearch, FALSE))
         /\ session.status = "AWAITING_ITEM_SELECTION" =>
              \A payload \in PayloadSamples :
                (/\ payload # NoPayload
                 /\ _safe_int(payload).ok
                 /\ InRange(options, _safe_int(payload).v)
                 /\ options[_safe_int(payload).v + 1].type = "fdc")
                  => Failed(handle_callback(session_id, "choose", payload,
                                            EmptySearch, FALSE))

(* a session showing the selection list with an external-database
   candidate on it, the current item still without a food *)
C11_Witness ==
  \E session_id \in SessionIds :
    LET context == sessions[session_id].context
    IN /\ sessions[session_id].status = "AWAITING_ITEM_SELECTION"
       /\ context.flow = "photo"
       /\ context.candidate_options # <<>>
       /\ context.candidate_options[1].type = "fdc"
       /\ ~_current_item(context).food.set
       /\ <<"item_yes", NoPayload>> \in offered[session_id]
       /\ <<"choose", <<"0">>>> \in offered[session_id]

(* the sum of one macro over a set of meal items *)
RECURSIVE SumMacro(_, _)
SumMacro(ids, f) ==
  IF ids = {} THEN RZero
  ELSE LET i == CHOOSE i \in ids : TRUE
       IN RAdd(meal_items[i].macros[f], SumMacro(ids \ {i}, f))

ItemsOfMeal(meal_log_id) ==
  {i \in 1..Len(meal_items) : meal_items[i].meal_log_id = meal_log_id}

(* C14: for every persisted meal log, after save_meal and after every
   completed update_meal_item_grams, each of the four stored totals equals
   the sum of that macro over the meal's current items *)
C14_TotalsMatchItems ==
  \A meal_log_id \in 1..Len(meal_logs), f \in 1..4 :
    meal_logs[meal_log_id].totals[f] = SumMacro(ItemsOfMeal(meal_log_id), f)

(* a meal of two items, both edited since the save: one down to 40 g, the
   other to no grams at all *)
C14_Witness ==
  \E meal_log_id \in 1..Len(meal_logs) :
    \E i \in ItemsOfMeal(meal_log_id), j \in ItemsOfMeal(meal_log_id) :
      /\ i # j
      /\ meal_items[i].grams = 40
      /\ meal_items[i].nutrition_snapshot.source_type = "fdc"
      /\ meal_items[j].grams = 0
      /\ RPos(meal_logs[meal_log_id].totals[1])

(* the portion of a stored nutrition snapshot at the given grams *)
PortionOfSnapshot(snapshot, grams) ==
  LET per_serving == /\ snapshot.basis = "perServing"
                     /\ snapshot.serving_size_g # NONE
                     /\ snapshot.serving_size_g > 0
  IN [f \in 1..4 |->
        IF grams <= 0 THEN RZero
        ELSE IF per_serving
          THEN RMul(snapshot.macros[f], Rat(grams, snapshot.serving_size_g))
        ELSE RMul(snapshot.macros[f], Rat(grams, 100))]

(* C15: update_meal_item_grams leaves the item's stored nutrition snapshot
   and the library alone, and the new macros are the portion of that
   snapshot at the new grams; so setting an item to grams g and then back
   to its grams restores its macros and the meal's totals *)
C15_EditFromFrozenSnapshot ==
  /\ [](\A meal_item_id \in 1..Len(meal_items), grams \in GramsSamples :
          LET there == update_meal_item_grams_in(Tables, meal_item_id, grams)
              back == update_meal_item_grams_in(
                        [Tables EXCEPT !.meal_items = there.meal_items,
                                       !.meal_logs = there.meal_logs],
                        meal_item_id, meal_items[meal_item_id].grams)
          IN /\ back.meal_items = meal_items
             /\ back.meal_logs = meal_logs)
  /\ [][\A meal_item_id \in 1..Len(meal_items), grams \in GramsSamples :
          UpdateGramsCall(meal_item_id, grams)
          => /\ meal_items'[meal_item_id].nutrition_snapshot
                  = meal_items[meal_item_id].nutrition_snapshot
             /\ meal_items'[meal_item_id].grams = grams
             /\ meal_items'[meal_item_id].macros
                  = PortionOfSnapshot(meal_items[meal_item_id].nutrition_snapshot,
                                      grams)
             /\ \A other \in 1..Len(meal_items) :
                  other # meal_item_id => meal_items'[other] = meal_items[other]
             /\ library' = library]_vars

(* the external-database food, saved at 150 g and since set to 80 g *)
C15_Witness ==
  \E i \in 1..Len(meal_items) :
    /\ meal_items[i].nutrition_snapshot.source_type = "fdc"
    /\ meal_items[i].grams = 80
    /\ meal_items[i].macros = <<Rat(132, 1), Rat(124, 5), Rat(16, 5), RZero>>

(* C16: portion scaling gives all-zero macros when grams <= 0; otherwise it
   multiplies the four base macros by one factor, grams / serving size when
   the basis is perServing and the serving size is a positive number, and
   grams / 100 in every other case; {150,5,3,27} perServing with serving 40
   at 80 g gives {300,10,6,54} *)
C16_PortionScaling ==
  /\ _compute_portion_macros(MacroOf(150, 5, 3, 27), 80, "perServing", 40)
       = MacroOf(300, 10, 6, 54)
  /\ \A i \in 1..Len(meal_items) :
       LET snapshot == meal_items[i].nutrition_snapshot
       IN /\ meal_items[i].macros = PortionOfSnapshot(snapshot, meal_items[i].grams)
          /\ \A grams \in GramsSamples :
               _compute_portion_macros(snapshot.macros, grams, snapshot.basis,
                                       snapshot.serving_size_g)
                 = PortionOfSnapshot(snapshot, grams)

(* the library rice (150/5/3/27 per 40 g serving) eaten at 80 g, next to a
   per-serving food without a usable serving size, scaled per 100 g *)
C16_Witness ==
  \E i \in 1..Len(meal_items), j \in 1..Len(meal_items) :
    /\ meal_items[i].nutrition_snapshot.basis = "perServing"
    /\ meal_items[i].nutrition_snapshot.serving_size_g = 40
    /\ meal_items[i].grams = 80
    /\ meal_items[i].macros = MacroOf(300, 10, 6, 54)
    /\ meal_items[j].nutrition_snapshot.basis = "perServing"
    /\ meal_items[j].nutrition_snapshot.serving_size_g \in {NONE, 0}
    /\ meal_items[j].grams = 40
    /\ meal_items[j].macros = <<RInt(60), RInt(2), Rat(6, 5), Rat(54, 5)>>

(* C17: portion scaling is linear in grams: for g > 0 the portion at 2g has
   every macro twice that of the portion at g, and the portion at 0 grams
   is all zero *)
C17_PortionLinear ==
  \A i \in 1..Len(meal_items) :
    LET snapshot == meal_items[i].nutrition_snapshot
        At(grams) == _compute_portion_macros(snapshot.macros, grams, snapshot.basis,
                                             snapshot.serving_size_g)
    IN /\ At(0) = MacroZero
       /\ \A grams \in GramsSamples \cup {meal_items[i].grams} :
            grams > 0 =>
              \A f \in 1..4 : At(2 * grams)[f] = RMul(RInt(2), At(grams)[f])
       /\ meal_items[i].grams > 0 =>
            \A f \in 1..4 : At(2 * meal_items[i].grams)[f]
                               = RMul(RInt(2), meal_items[i].macros[f])

(* the same food in two meals, at 40 g in one and at 80 g, with twice the
   macros, in the other *)
C17_Witness ==
  \E i \in 1..Len(meal_items), j \in 1..Len(meal_items) :
    /\ meal_items[i].nutrition_snapshot = meal_items[j].nutrition_snapshot
    /\ meal_items[i].grams = 40
    /\ meal_items[j].grams = 80
    /\ RPos(meal_items[i].macros[1])
    /\ \A f \in 1..4 : meal_items[j].macros[f] = RMul(RInt(2), meal_items[i].macros[f])

(* C18: save_meal writes the meal log row with its totals, then all meal
   item rows, then the usage increments: when a usage increment is made
   the meal log row and all of its item rows are there, and from that
   point on every later write changes usage counters only, so a failure
   between the row writes and the increments, or during them, leaves a
   meal log that has all its items *)
C18_SaveWriteOrder ==
  \A user_id \in Users :
    \A items \in MealSamples(user_id) :
      LET done == save_meal_writes(Tables, user_id, items)
          final == done[Len(done)].db
          meal_id == Len(meal_logs) + 1
          HasMeal(db) ==
            /\ Len(db.meal_logs) = meal_id
            /\ db.meal_logs[meal_id].totals = final.meal_logs[meal_id].totals
            /\ Cardinality({i \in 1..Len(db.meal_items) :
                              db.meal_items[i].meal_log_id = meal_id}) = Len(items)
      IN \A k \in 1..Len(done) :
           /\ done[k].op = "create_meal_items" =>
                k > 1 /\ done[k - 1].op = "create_meal_log"
           /\ done[k].op = "increment_usage" =>
                /\ k > 1
                /\ HasMeal(done[k - 1].db)
                /\ done[k].db.meal_logs = final.meal_logs
                /\ done[k].db.meal_items = final.meal_items
                /\ \A j \in k..Len(done) : done[j].op = "increment_usage"

(* a saved meal of two items, the two library foods it refers to both
   counted as used *)
C18_Witness ==
  /\ Len(meal_logs) = 1
  /\ Len(meal_items) = 2
  /\ meal_items[1].food_id # meal_items[2].food_id
  /\ \A i \in 1..2 :
       /\ meal_items[i].food_id \in 1..Len(library)
       /\ library[meal_items[i].food_id].use_count = 1
       /\ library[meal_items[i].food_id].last_used_at > meal_logs[1].logged_at

(* a library food of the user with the item's source *)
MatchesSource(food, user_id, item) ==
  /\ food.user_id = user_id
  /\ food.source_type = item.source_type
  /\ food.source_ref = item.source_ref

(* C19: when save_meal succeeds, every persisted meal item whose spec came
   from a manual or external-database food carries the food_id of a
   library food owned by the saving user; an item whose (source_type,
   source_ref) matches a library food of that user is linked to that food
   and no library food is created for it; an item without a match gets a
   library food created for it, before the meal log and item rows are
   written *)
C19_SavedItemsHaveLibraryFood ==
  [][\A user_id \in Users :
       \A items \in MealSamples(user_id) :
         SaveMealCall(user_id, items) =>
           LET done == save_meal_writes(Tables, user_id, items)
               fresh == (Len(library) + 1)..Len(library')
               Matches(item) ==
                 {f \in 1..Len(library) : /\ item.source_ref # NULL
                                           /\ MatchesSource(library[f], user_id, item)}
           IN /\ \A k \in 1..Len(items) :
                   LET item == items[k]
                       food_id == meal_items'[Len(meal_items) + k].food_id
                   IN item.source_type \in {"manual", "fdc"} =>
                        /\ food_id \in 1..Len(library')
                        /\ library'[food_id].user_id = user_id
                        /\ MatchesSource(library'[food_id], user_id, item)
                        /\ Matches(item) # {} =>
                             /\ food_id \in Matches(item)
                             /\ \A f \in fresh :
                                  ~MatchesSource(library'[f], user_id, item)
                        /\ Matches(item) = {} => food_id \in fresh
              /\ \A f \in fresh, g \in fresh :
                   (/\ f # g
                    /\ library'[f].source_ref # NULL
                    /\ library'[f].source_type = library'[g].source_type)
                     => library'[f].source_ref # library'[g].source_ref
              /\ \A k \in 1..Len(done) :
                   done[k].op = "create_food" =>
                     \A j \in 1..k : done[j].op = "create_food"]_vars

(* the external-database food in two meals of one user: created by the
   first save, found and linked by the second; and a meal whose two items
   are that one food *)
C19_Witness ==
  /\ Len(meal_logs) = 2
  /\ meal_logs[1].user_id = meal_logs[2].user_id
  /\ Len(library) = 2
  /\ library[2].source_type = "fdc"
  /\ library[2].user_id = meal_logs[1].user_id
  /\ \A i \in 1..Len(meal_items) : meal_items[i].food_id = 2
  /\ Len(meal_items) = 3

(* C20: after a successful save every library food referenced by an item
   of the saved meal has a use_count strictly greater than before and a
   last_used_at taken during the save, and every other library food has
   the use_count and last_used_at it had *)
C20_UsageFrame ==
  [][\A user_id \in Users :
       \A items \in MealSamples(user_id) :
         SaveMealCall(user_id, items) =>
           LET referenced ==
                 {meal_items'[i].food_id : i \in (Len(meal_items) + 1)..Len(meal_items')}
           IN \A f \in 1..Len(library') :
                /\ f \in referenced =>
                     /\ library'[f].use_count >= 1
                     /\ library'[f].last_used_at > clock
                     /\ library'[f].last_used_at <= clock'
                     /\ f <= Len(library) =>
                          /\ library'[f].use_count > library[f].use_count
                          /\ library'[f].last_used_at > library[f].last_used_at
                /\ (f \notin referenced /\ f <= Len(library)) =>
                     library'[f] = library[f]]_vars

(* a food used by two saves and counted twice, beside a food no meal
   refers to, never counted *)
C20_Witness ==
  \E f \in 1..Len(library), g \in 1..Len(library) :
    /\ Len(meal_logs) = 2
    /\ library[f].use_count = 2
    /\ library[f].last_used_at > meal_logs[2].logged_at
    /\ library[g].use_count = 0
    /\ library[g].last_used_at = NULL
    /\ \A i \in 1..Len(meal_items) : meal_items[i].food_id = f

(* the sessions of the edit flow *)
IsEditSession(session_id) ==
  session_id \in SessionIds /\ sessions[session_id].context.flow = "edit"

(* the texts _parse_grams turns into a positive number of grams *)
ValidGramsTexts == {text \in TextSamples : _parse_grams(text) \notin {NONE, RAISED}}

(* C12: in the edit flow of a saved meal, the edit_item button of a valid
   index i pressed in EDIT_SELECT_ITEM moves the session to EDIT_ENTER_GRAMS
   with the id of item i of the list captured when the session started as
   target; a valid grams text then gives that meal item the new grams and
   the portion of its snapshot, records exactly one update_grams audit
   event whose before is the item as captured at session start and whose
   after is the item as updated, and completes the session.  The captured
   list is the meal's items at the start and no step changes it. *)
C12_EditFlow ==
  [][/\ \A session_id \in SessionIds :
          /\ session_id \in 1..Len(sessions')
          /\ sessions'[session_id].context.edit_items
               = sessions[session_id].context.edit_items
     /\ \A session_id \in 1..Len(sessions') :
          (session_id \notin SessionIds /\ sessions'[session_id].context.flow = "edit")
            => /\ sessions'[session_id].status = "EDIT_SELECT_ITEM"
               /\ sessions'[session_id].context.edit_items
                    = EditItems(sessions'[session_id].context.meal_id)
     /\ \A session_id \in SessionIds, payload \in PayloadSamples :
          (/\ IsEditSession(session_id)
           /\ sessions[session_id].status = "EDIT_SELECT_ITEM"
           /\ _safe_int(payload).ok
           /\ InRange(sessions[session_id].context.edit_items, _safe_int(payload).v)
           /\ SessionCallback(session_id, "edit_item", payload, EmptySearch, TRUE))
            => /\ sessions'[session_id].status = "EDIT_ENTER_GRAMS"
               /\ sessions'[session_id].context.edit_item_id
                    = sessions[session_id].context.edit_items[_safe_int(payload).v + 1].id
               /\ meal_items' = meal_items /\ audit' = audit
     /\ \A user_id \in Users, text \in ValidGramsTexts :
          LET session_id == get_active_session(user_id)
              context == sessions[session_id].context
              item_id == context.edit_item_id
              grams == _parse_grams(text)
              captured == {i \in 1..Len(context.edit_items) :
                             context.edit_items[i].id = item_id}
          IN (/\ session_id # NULL
              /\ IsEditSession(session_id)
              /\ sessions[session_id].status = "EDIT_ENTER_GRAMS"
              /\ item_id \in 1..Len(meal_items)
              /\ TextMessage(user_id, text, EmptySearch))
               => /\ sessions'[session_id].status = STATUS_COMPLETED
                  /\ meal_items'[item_id].grams = grams
                  /\ meal_items'[item_id].macros
                       = PortionOfSnapshot(meal_items[item_id].nutrition_snapshot, grams)
                  /\ \A other \in 1..Len(meal_items) :
                       other # item_id => meal_items'[other] = meal_items[other]
                  /\ Len(audit') = Len(audit) + 1
                  /\ SubSeq(audit', 1, Len(audit)) = audit
                  /\ audit'[Len(audit')].event_type = "update_grams"
                  /\ audit'[Len(audit')].entity_id = item_id
                  /\ audit'[Len(audit')].user_id = user_id
                  /\ \E i \in captured :
                       audit'[Len(audit')].before
                         = <<[name |-> context.edit_items[i].name,
                              grams |-> context.edit_items[i].grams,
                              macros |-> context.edit_items[i].macros]>>
                  /\ audit'[Len(audit')].after
                       = <<[name |-> meal_items'[item_id].name, grams |-> grams,
                            macros |-> meal_items'[item_id].macros]>>]_vars

(* the chicken of the saved meal, second in the list, edited from the 150 g
   of the estimate to 80 g: one audit event, the session completed *)
C12_Witness ==
  \E session_id \in SessionIds :
    /\ IsEditSession(session_id)
    /\ sessions[session_id].status = STATUS_COMPLETED
    /\ sessions[session_id].context.edit_item_id = 2
    /\ Len(audit) = 1
    /\ audit[1].entity_id = 2
    /\ audit[1].before[1].grams = 150
    /\ audit[1].after[1].grams = 80
    /\ meal_items[2].grams = 80
    /\ meal_items[1].grams = 88

(* callback data is text of the request: the index in it need not be one
   of a button that was sent *)
CraftedPayloads == PayloadSamples \cup {<<"5">>, <<"-", "1">>}

(* C13: in the edit flow, when valid grams are entered in EDIT_ENTER_GRAMS
   and the target cannot be resolved (the chosen index was outside the
   item list, so no target id was recorded, or the meal item is gone), the
   reply is the unable-to-update message, no meal item and no total
   changes, and the session is completed *)
C13_UnresolvedTargetCompletes ==
  \A session_id \in SessionIds, payload \in CraftedPayloads, text \in ValidGramsTexts :
    LET chosen == handle_callback(session_id, "edit_item", payload, EmptySearch, TRUE)
    IN (/\ IsEditSession(session_id)
        /\ sessions[session_id].status = "EDIT_SELECT_ITEM"
        /\ chosen.upd
        /\ chosen.status = "EDIT_ENTER_GRAMS")
         => \A target \in {chosen.context.edit_item_id, Len(meal_items) + 1} :
              LET entering == [sessions[session_id] EXCEPT
                                 !.status = chosen.status,
                                 !.context = [chosen.context EXCEPT
                                                !.edit_item_id = target]]
                  entered == _handle_edit_text(entering, text)
                  upd == update_meal_item_grams(target, _parse_grams(text))
              IN (target = NULL \/ target \notin 1..Len(meal_items))
                   => /\ entered.upd
                      /\ entered.status = STATUS_COMPLETED
                      /\ entered.reply = "unable_to_update"
                      /\ (entered.edit # NONE =>
                            /\ upd.meal_items = meal_items
                            /\ upd.meal_logs = meal_logs)

(***************************************************************************)
(* Concurrent usage increments (SupabaseLibraryRepository.increment_usage) *)
(*                                                                         *)
(* The repository increments use_count with two separate requests to the   *)
(* table: a select of the current use_count and an update writing          *)
(* current + 1.  Requests of different webhook deliveries may reach the    *)
(* table in any order, so each request is a step of its own here.          *)
(***************************************************************************)

(* LibraryService.record_use: used_at = datetime.now(), then the repository
   call starts *)
record_use(w, food_id) ==
  /\ incs[w].pc = "idle"
  /\ clock' = clock + 1
  /\ incs' = [incs EXCEPT ![w] = [pc |-> "select", food_id |-> food_id,
                                   used_at |-> clock + 1, current |-> 0]]
  /\ UNCHANGED <<sessions, photos, photoSeq, library, meal_logs, meal_items,
                 audit, offered, writes, cache, call, ranked, parsed, lookup, flight, update>>

(* increment_usage, first request: select use_count where id = food_id;
   current stays 0 when no row comes back *)
SelectUseCount(w) ==
  /\ incs[w].pc = "select"
  /\ incs' = [incs EXCEPT ![w].pc = "update",
                          ![w].current =
                            IF incs[w].food_id \in 1..Len(library)
                              THEN library[incs[w].food_id].use_count
                              ELSE 0]
  /\ UNCHANGED <<sessions, photos, photoSeq, library, meal_logs, meal_items,
                 audit, clock, offered, writes, cache, call, ranked, parsed, lookup, flight, update>>

(* increment_usage, second request: update use_count = current + 1 and
   last_used_at where id = food_id (no row is touched when none matches) *)
UpdateUseCount(w) ==
  /\ incs[w].pc = "update"
  /\ library' =
       IF incs[w].food_id \in 1..Len(library)
         THEN [library EXCEPT
                 ![incs[w].food_id].use_count = incs[w].current + 1,
                 ![incs[w].food_id].last_used_at = incs[w].used_at]
         ELSE library
  /\ incs' = [incs EXCEPT ![w].pc = "done"]
  /\ UNCHANGED <<sessions, photos, photoSeq, meal_logs, meal_items, audit,
                 clock, offered, writes, cache, call, ranked, parsed, lookup, flight, update>>

NextUsage ==
  \/ \E w \in Workers, food_id \in 1..(Len(library) + 1) : record_use(w, food_id)
  \/ \E w \in Workers : SelectUseCount(w)
  \/ \E w \in Workers : UpdateUseCount(w)

SpecUsage == InitEdit /\ [][NextUsage]_vars

(* the calls of record_use for food_id that have returned *)
UsesDone(food_id) ==
  Cardinality({w \in Workers : incs[w].pc = "done" /\ incs[w].food_id = food_id})

(* C21: usage increments on a shared library food are atomic: once every
   increment that was started has returned, the use_count of each food is
   its count before the increments plus the number of increments made on
   it, however the requests of the increments were interleaved; no
   increment is lost. *)
C21_NoIncrementLost ==
  (\A w \in Workers : incs[w].pc \in {"idle", "done"})
    => \A food_id \in 1..Len(library) :
         library[food_id].use_count =
           SavedPhotoTables.library[food_id].use_count + UsesDone(food_id)

(***************************************************************************)
(* Library ranking (LibraryService.search, LibraryService._rank)           *)
(***************************************************************************)

(* rows of foods_user_library of user 1, used or never used *)
RankedFoods ==
  {[SeedFood EXCEPT !.name = n, !.use_count = c, !.last_used_at = l] :
     n \in {TxtRice, TxtChicken}, c \in 0..1, l \in {NULL, 1, 2}}

RankQueries == {<<>>, TxtRice}

InitRank ==
  /\ sessions = <<>>
  /\ photos = {}
  /\ photoSeq = 0
  /\ library \in [1..MaxRanked -> RankedFoods]
  /\ meal_logs = <<>>
  /\ meal_items = <<>>
  /\ audit = <<>>
  /\ clock = 2
  /\ offered = <<>>
  /\ writes = 0
  /\ incs = [w \in Workers |-> NoIncrement]
  /\ cache = NoEntries
  /\ call = NoCall
  /\ ranked = NoSearch
  /\ parsed = NoData
  /\ lookup = NoLookup
  /\ flight = [w \in Workers |-> NoFlight]
  /\ update = NoUpdate

(* the rows the repository returns to LibraryService.search *)
RepositoryRows(user_id, query, limit) ==
  IF query = <<>> THEN list_top_foods(user_id, limit)
  ELSE search_foods(user_id, query, limit)

(* a call of LibraryService.search *)
LibrarySearchCall(user_id, query, limit) ==
  /\ ranked' = [done |-> TRUE, user_id |-> user_id, query |-> query,
                limit |-> limit,
                items |-> RepositoryRows(user_id, query, limit),
                result |-> LibrarySearch(user_id, query, limit)]
  /\ UNCHANGED <<sessions, photos, photoSeq, library, meal_logs, meal_items,
                 audit, clock, offered, writes, incs, cache, call, parsed, lookup, flight, update>>

NextRank ==
  \E user_id \in Users, query \in RankQueries, limit \in {2, MaxRanked} :
    LibrarySearchCall(user_id, query, limit)

SpecRank == InitRank /\ [][NextRank]_vars

(* how often id occurs in the sequence ids *)
Occurrences(ids, id) == Cardinality({i \in 1..Len(ids) : ids[i] = id})

(* C22: LibraryService.search returns a permutation of the rows the
   repository returned, ordered by last_used_at descending and, among equal
   last_used_at, by use_count descending; a food that was never used comes
   after every food that has been used, whatever its use_count. *)
C22_SearchRanking ==
  ranked.done =>
    /\ Len(ranked.result) = Len(ranked.items)
    /\ \A id \in 1..Len(library) :
         Occurrences(ranked.result, id) = Occurrences(ranked.items, id)
    /\ \A i, j \in 1..Len(ranked.result) :
         i < j =>
           LET a == library[ranked.result[i]]
               b == library[ranked.result[j]]
           IN /\ a.last_used_at = NULL => b.last_used_at = NULL
              /\ (a.last_used_at # NULL /\ b.last_used_at # NULL)
                   => a.last_used_at >= b.last_used_at
              /\ a.last_used_at = b.last_used_at => a.use_count >= b.use_count

(* three rows came back in another order than the ranked one: a food never
   used but counted once stands behind a used food with count 0, and two
   foods used at the same time stand by use_count *)
C22_Witness ==
  /\ ranked.done
  /\ Len(ranked.result) = 3
  /\ ranked.result # ranked.items
  /\ library[ranked.result[1]].last_used_at = 2
  /\ library[ranked.result[1]].use_count = 1
  /\ library[ranked.result[2]].last_used_at = 2
  /\ library[ranked.result[2]].use_count = 0
  /\ library[ranked.result[3]].last_used_at = NULL
  /\ library[ranked.result[3]].use_count = 1

(***************************************************************************)
(* Nutrition lookups: NutritionService over InMemoryCache                  *)
(*                                                                         *)
(* clock is datetime.now() in seconds; the two TTLs are the constructor's  *)
(* parameters, kept to a few seconds.  One call of the service is under    *)
(* way at a time; every call of the provider is a step that returns a      *)
(* payload or raises.                                                      *)
(***************************************************************************)

(* cache_key of search: f"fdc:search:{query.lower()}:{limit}" *)
SearchKeyAsTyped(query, limit) == <<"fdc:search", query, limit>>

SearchKey(query, limit) == <<"fdc:search", Lower(query), limit>>

(* cache_key of get_food: f"fdc:food:{fdc_id}" *)
FoodKey(fdc_id) == <<"fdc:food", fdc_id>>

(* InMemoryCache.get returns the entry's value: there is an entry and
   now < expires_at; otherwise it returns None *)
CacheHit(key) == key \in DOMAIN cache /\ clock < cache[key].expires_at

(* InMemoryCache.get pops an entry it finds expired *)
CacheAfterGet(key) ==
  IF key \in DOMAIN cache /\ clock >= cache[key].expires_at
    THEN [k \in DOMAIN cache \ {key} |-> cache[k]]
    ELSE cache

(* InMemoryCache.set *)
CacheSet(key, value, ttl_seconds) ==
  [k \in DOMAIN cache \cup {key} |->
     IF k = key THEN [value |-> value, expires_at |-> clock + ttl_seconds]
     ELSE cache[k]]

(* the loop of _call_with_retry ends with the exception once attempt has
   passed retry_attempts *)
RetryExhaustedLate(attempt) == attempt > retry_attempts + 1

RetryExhausted(attempt) == attempt > retry_attempts

NutritionQueries == {TxtRice, <<"R", "i", "c", "e">>}
NutritionLimits == {3, 5}
FdcIds == {11}

(* payloads of the provider: the fdcIds of a search page, the servingSize of
   a food; the exceptions it raises *)
SearchPayloads == {<<>>, <<11>>, <<11, 12>>}
FoodPayloads == {NONE, 100}
ProviderErrors == {"timeout", "status 500"}

RECURSIVE FoodSummaries(_)
FoodSummaries(ids) ==
  IF ids = <<>> THEN <<>>
  ELSE <<FdcSummary(Head(ids))>> \o FoodSummaries(Tail(ids))

(* the value search / get_food builds from the provider's payload *)
ValueOfPayload(args, payload) ==
  IF args[1] = "search" THEN FoodSummaries(payload)
  ELSE [FdcDetails(args[2]) EXCEPT !.serving_size_g = payload]

PayloadsFor(args) == IF args[1] = "search" THEN SearchPayloads ELSE FoodPayloads

(* search / get_food up to the provider call: a cached value is returned
   at once, otherwise _call_with_retry starts with attempt = 0 *)
StartCall(args, key, ttl_seconds) ==
  /\ call.pc # "calling"
  /\ cache' = CacheAfterGet(key)
  /\ call' =
       IF CacheHit(key)
         THEN [pc |-> "returned", args |-> args, key |-> key,
               ttl |-> ttl_seconds, attempt |-> 0, calls |-> 0,
               result |-> cache[key].value]
         ELSE [pc |-> "calling", args |-> args, key |-> key,
               ttl |-> ttl_seconds, attempt |-> 0, calls |-> 0,
               result |-> <<>>]
  /\ UNCHANGED <<sessions, photos, photoSeq, library, meal_logs, meal_items,
                 audit, clock, offered, writes, incs, ranked, parsed, lookup, flight, update>>

(* NutritionService.search *)
search(query, limit) ==
  StartCall(<<"search", query, limit>>, SearchKey(query, limit),
            search_ttl_seconds)

(* NutritionService.get_food *)
get_food(fdc_id) ==
  StartCall(<<"get_food", fdc_id>>, FoodKey(fdc_id), food_ttl_seconds)

(* the awaited provider call returns: the value is cached and returned *)
ProviderReturns(payload) ==
  /\ call.pc = "calling"
  /\ cache' = CacheSet(call.key, ValueOfPayload(call.args, payload), call.ttl)
  /\ call' = [call EXCEPT !.pc = "returned", !.calls = @ + 1,
                          !.result = ValueOfPayload(call.args, payload)]
  /\ UNCHANGED <<sessions, photos, photoSeq, library, meal_logs, meal_items,
                 audit, clock, offered, writes, incs, ranked, parsed, lookup, flight, update>>

(* the awaited provider call raises: attempt += 1, then the exception is
   raised again or the call is made once more after the delay *)
ProviderRaises(error) ==
  /\ call.pc = "calling"
  /\ call' = [call EXCEPT
                !.pc = IF RetryExhausted(call.attempt + 1)
                         THEN "raised" ELSE "calling",
                !.attempt = @ + 1, !.calls = @ + 1, !.result = error]
  /\ UNCHANGED <<sessions, photos, photoSeq, library, meal_logs, meal_items,
                 audit, clock, offered, writes, incs, cache, ranked, parsed, lookup, flight, update>>

(* a second passes *)
Tick ==
  /\ clock < MaxTime
  /\ clock' = clock + 1
  /\ UNCHANGED <<sessions, photos, photoSeq, library, meal_logs, meal_items,
                 audit, offered, writes, incs, cache, call, ranked, parsed, lookup, flight, update>>

ProviderAnswers ==
  \/ /\ call.pc = "calling"
     /\ \E payload \in PayloadsFor(call.args) : ProviderReturns(payload)
  \/ \E error \in ProviderErrors : ProviderRaises(error)

NextNutrition ==
  \/ \E query \in NutritionQueries, limit \in NutritionLimits : search(query, limit)
  \/ \E fdc_id \in FdcIds : get_food(fdc_id)
  \/ ProviderAnswers
  \/ Tick

SpecNutrition == Init /\ [][NextNutrition]_vars

(* an awaited provider call comes back, with a payload or an exception *)
SpecNutritionLive == SpecNutrition /\ WF_vars(ProviderAnswers)

(* C23: a nutrition-database call wrapped by the retry always terminates:
   the provider is called at most retry_attempts + 1 times; the first call
   that succeeds ends the loop with its result and no further provider call
   is made; when every attempt has failed the last failure is raised. *)
C23_RetryTerminates ==
  /\ [](call.calls <= retry_attempts + 1)
  /\ [](call.pc = "raised" =>
          /\ call.calls = retry_attempts + 1
          /\ call.attempt = call.calls
          /\ call.result \in ProviderErrors)
  /\ [](call.pc = "calling" => call.attempt = call.calls)
  /\ [][/\ (call.pc = "calling" /\ call'.attempt = call.attempt
                /\ call'.calls # call.calls)
              => /\ call'.pc = "returned"
                 /\ call'.calls = call.calls + 1
                 /\ \E payload \in PayloadsFor(call.args) :
                      call'.result = ValueOfPayload(call.args, payload)
        /\ (call.pc = "calling" /\ call'.attempt # call.attempt)
              => /\ call'.result \in ProviderErrors
                 /\ call'.calls = call.calls + 1
                 /\ call'.pc = IF call'.calls > retry_attempts
                                 THEN "raised" ELSE "calling"
        /\ (call.pc \in {"returned", "raised"} /\ call' # call)
              => call'.calls = 0]_vars
  /\ (call.pc = "calling") ~> (call.pc \in {"returned", "raised"})

(* the provider failed retry_attempts times and then answered *)
C23_Witness ==
  /\ call.pc = "returned"
  /\ call.attempt = retry_attempts
  /\ call.calls = retry_attempts + 1

(* the cache entry under key answers the lookup args: the same query up to
   letter case and the same limit, or the same fdc id *)
SameLookup(key, args) ==
  IF args[1] = "search"
    THEN /\ key[1] = "fdc:search"
         /\ Lower(key[2]) = Lower(args[2])
         /\ key[3] = args[3]
    ELSE /\ key[1] = "fdc:food"
         /\ key[2] = args[2]

(* the unexpired cache entries that answer the lookup args *)
LiveEntries(args) ==
  {k \in DOMAIN cache : clock < cache[k].expires_at /\ SameLookup(k, args)}

TtlOf(args) ==
  IF args[1] = "search" THEN search_ttl_seconds ELSE food_ttl_seconds

(* C24: a successful search or get_food stores its result until the TTL has
   passed, and until then every call with the same query (up to letter
   case) and limit, or the same id, returns that result without calling the
   provider; a failed provider call stores nothing, so a call that finds no
   unexpired entry goes to the provider. *)
C24_CachedLookups ==
  [][/\ (call.pc # "calling" /\ call' # call /\ LiveEntries(call'.args) # {})
          => /\ call'.pc = "returned"
             /\ call'.calls = 0
             /\ \A k \in LiveEntries(call'.args) : call'.result = cache[k].value
             /\ cache' = cache
     /\ (call.pc # "calling" /\ call' # call /\ LiveEntries(call'.args) = {})
          => /\ call'.pc = "calling"
             /\ call'.calls = 0
     /\ (call.pc = "calling" /\ call'.pc = "returned")
          => \E k \in DOMAIN cache' :
               /\ SameLookup(k, call.args)
               /\ cache'[k].value = call'.result
               /\ cache'[k].expires_at = clock + TtlOf(call.args)
     /\ (call.pc = "calling" /\ call'.pc # "returned") => cache' = cache
     /\ \A k \in DOMAIN cache :
          clock < cache[k].expires_at
            => k \in DOMAIN cache' /\ cache'[k] = cache[k]
    ]_vars

(* a search typed with a capital letter was answered from the entry stored
   under the lower-case query, one second before it expires *)
C24_Witness ==
  /\ call.pc = "returned"
  /\ call.calls = 0
  /\ call.args = <<"search", <<"R", "i", "c", "e">>, 3>>
  /\ call.key = <<"fdc:search", TxtRice, 3>>
  /\ call.key \in DOMAIN cache
  /\ cache[call.key].value = <<FdcSummary(11)>>
  /\ call.result = <<FdcSummary(11)>>
  /\ clock = cache[call.key].expires_at - 1

IsLibrarySession(session_id) == sessions[session_id].context.flow = "library"

(* the macro lines among the sample texts that _parse_macros accepts *)
ValidMacros == {_parse_macros(text).m : text \in {x \in TextSamples : _parse_macros(x).ok}}

(* C25: a library-add session starts in AWAITING_MANUAL_NAME with no photo;
   it is in AWAITING_MANUAL_MACROS or COMPLETED only after the store and the
   basis were asked (and the serving size was given when the basis is
   perServing); it becomes COMPLETED only from AWAITING_MANUAL_MACROS on a
   valid macro line, and that step creates exactly one library food of the
   session's user with the drafted name, store, basis, serving size and the
   entered macros, and no meal log. *)
C25_LibraryAddFlow ==
  /\ [](\A session_id \in SessionIds :
          IsLibrarySession(session_id) =>
            LET session == sessions[session_id]
                manual == session.context.manual
            IN /\ session.photo_id = NULL
               /\ Button("save") \notin offered[session_id]
               /\ session.status \in {"AWAITING_MANUAL_MACROS", STATUS_COMPLETED}
                    => /\ manual.name # <<>>
                       /\ \E a \in StoreActions : Button(a) \in offered[session_id]
                       /\ Button("basis_100") \in offered[session_id]
                       /\ manual.basis \in {"per100g", "perServing"}
                       /\ manual.basis = "perServing"
                            => manual.serving_size_g \notin {NONE, RAISED})
  /\ [][/\ \A session_id \in SessionIds :
            (/\ IsLibrarySession(session_id)
             /\ sessions[session_id].status # STATUS_COMPLETED
             /\ sessions'[session_id].status = STATUS_COMPLETED)
            => LET session == sessions[session_id]
                   manual == session.context.manual
                   food == library'[Len(library')]
               IN /\ session.status = "AWAITING_MANUAL_MACROS"
                  /\ sessions'[session_id].context = session.context
                  /\ Len(library') = Len(library) + 1
                  /\ SubSeq(library', 1, Len(library)) = library
                  /\ food.user_id = session.user_id
                  /\ food.name = manual.name
                  /\ food.store = manual.store
                  /\ food.basis = manual.basis
                  /\ food.serving_size_g = manual.serving_size_g
                  /\ food.macros \in ValidMacros
                  /\ food.source_type = "manual"
                  /\ food.use_count = 0
                  /\ meal_logs' = meal_logs
                  /\ meal_items' = meal_items
        /\ (Len(sessions') > Len(sessions)
              /\ sessions'[Len(sessions')].context.flow = "library")
            => /\ sessions'[Len(sessions')].status = "AWAITING_MANUAL_NAME"
               /\ sessions'[Len(sessions')].photo_id = NULL]_vars

(* a library-add session completed with a per-serving food of 80 g *)
C25_Witness ==
  \E session_id \in SessionIds :
    /\ IsLibrarySession(session_id)
    /\ sessions[session_id].status = STATUS_COMPLETED
    /\ sessions[session_id].context.manual.basis = "perServing"
    /\ Len(library) = Len(InitialLibrary) + 1
    /\ library[Len(library)].user_id = sessions[session_id].user_id
    /\ library[Len(library)].serving_size_g = 80
    /\ library[Len(library)].macros = MacroOf(150, 5, 3, 27)
    /\ meal_logs = <<>>

(* C26: in the photo flow a valid macro line in AWAITING_MANUAL_MACROS
   attaches the entered food (source_type manual, the entered basis, serving
   size and macros) to the item at current_index and to no other item,
   moves the session to AWAITING_PORTION_CHOICE, leaves current_index and
   the rest of the context as they were, and creates no library food. *)
C26_ManualEntryAttaches ==
  [][\A user_id \in Users :
       (/\ get_active_session(user_id) # NULL
        /\ sessions[get_active_session(user_id)].context.flow = "photo"
        /\ sessions[get_active_session(user_id)].status = "AWAITING_MANUAL_MACROS")
       => \A text \in {x \in TextSamples : _parse_macros(x).ok} :
            \A srch \in TextSearches(user_id) :
              TextMessage(user_id, text, srch)
              => LET session_id == get_active_session(user_id)
                     context == sessions[session_id].context
                     after == sessions'[session_id].context
                     k == context.current_index + 1
                 IN /\ sessions'[session_id].status = "AWAITING_PORTION_CHOICE"
                    /\ after = [context EXCEPT !.items = after.items]
                    /\ Len(after.items) = Len(context.items)
                    /\ \A i \in 1..Len(context.items) :
                         i # k => after.items[i] = context.items[i]
                    /\ k \in 1..Len(context.items)
                         => /\ after.items[k] =
                                 [context.items[k] EXCEPT !.food = after.items[k].food]
                            /\ after.items[k].food.source_type = "manual"
                            /\ after.items[k].food.basis = context.manual.basis
                            /\ after.items[k].food.serving_size_g =
                                 context.manual.serving_size_g
                            /\ after.items[k].food.macros = _parse_macros(text).m
                            /\ after.items[k].food.food_id = NULL
                    /\ library' = library
                    /\ meal_logs' = meal_logs
                    /\ meal_items' = meal_items]_vars

(* a photo session whose first of two items carries a manually entered
   per-serving food and waits for its portion *)
C26_Witness ==
  \E session_id \in SessionIds :
    LET session == sessions[session_id]
    IN /\ session.context.flow = "photo"
       /\ session.status = "AWAITING_PORTION_CHOICE"
       /\ Len(session.context.items) = 2
       /\ session.context.current_index = 0
       /\ session.context.items[1].food.source_type = "manual"
       /\ session.context.items[1].food.basis = "perServing"
       /\ session.context.items[1].food.serving_size_g = 80
       /\ session.context.items[1].food.macros = MacroOf(150, 5, 3, 27)
       /\ ~session.context.items[2].food.set
       /\ library = InitialLibrary

(***************************************************************************)
(* Callback data: _callback_data and _parse_session_callback               *)
(*                                                                         *)
(* Texts are sequences of characters.  A UUID value is its 32 hexadecimal  *)
(* digits in lower case; the row n of photo_sessions has the id UUID(int=n)*)
(***************************************************************************)

HexDigits ==
  <<"0", "1", "2", "3", "4", "5", "6", "7", "8", "9", "a", "b", "c", "d", "e", "f">>
HexUpper == <<"A", "B", "C", "D", "E", "F">>
HexLower(c) ==
  IF \E i \in 1..6 : HexUpper[i] = c
    THEN HexDigits[10 + (CHOOSE i \in 1..6 : HexUpper[i] = c)]
    ELSE c
IsHex(c) == \E i \in 1..16 : HexDigits[i] = HexLower(c)

Zeros(n) == [i \in 1..n |-> "0"]

(* the id of row n as a UUID value *)
UuidOfRow(n) == Zeros(31) \o <<HexDigits[n + 1]>>

(* str(UUID): the digits grouped 8-4-4-4-12 *)
UuidStr(u) ==
  SubSeq(u, 1, 8) \o <<"-">> \o SubSeq(u, 9, 12) \o <<"-">> \o SubSeq(u, 13, 16)
    \o <<"-">> \o SubSeq(u, 17, 20) \o <<"-">> \o SubSeq(u, 21, 32)

(* str.strip('{}') *)
RECURSIVE StripBraces(_)
StripBraces(s) ==
  IF s # <<>> /\ Head(s) \in {"{", "}"} THEN StripBraces(Tail(s))
  ELSE IF s # <<>> /\ s[Len(s)] \in {"{", "}"}
    THEN StripBraces(SubSeq(s, 1, Len(s) - 1))
  ELSE s

(* the digits int(text, 16) reads: blanks around the number, a sign, a 0x
   prefix and single underscores between digits are accepted; ok = FALSE is
   ValueError *)
HexLiteral(text) ==
  LET s1 == Strip(text)
      s2 == IF s1 # <<>> /\ s1[1] \in {"+", "-"} THEN Tail(s1) ELSE s1
      prefixed == Len(s2) >= 2 /\ s2[1] = "0" /\ s2[2] \in {"x", "X"}
      s3 == IF prefixed THEN SubSeq(s2, 3, Len(s2)) ELSE s2
      s4 == IF prefixed /\ s3 # <<>> /\ s3[1] = "_" THEN Tail(s3) ELSE s3
      digits == SelectSeq(s4, LAMBDA c : c # "_")
      underscores_ok ==
        /\ s4 # <<>> => (s4[1] # "_" /\ s4[Len(s4)] # "_")
        /\ \A i \in 1..(Len(s4) - 1) : ~(s4[i] = "_" /\ s4[i + 1] = "_")
  IN [ok |-> /\ digits # <<>>
             /\ underscores_ok
             /\ \A i \in 1..Len(digits) : IsHex(digits[i]),
      negative |-> s1 # <<>> /\ s1[1] = "-"
                     /\ \E i \in 1..Len(digits) : digits[i] # "0",
      digits |-> [i \in 1..Len(digits) |-> HexLower(digits[i])]]

(* uuid.UUID(hex): urn: and uuid: are dropped, braces stripped, hyphens
   dropped, 32 characters must be left and int(hex, 16) must read them;
   ok = FALSE is ValueError *)
ParseUuid(text) ==
  LET hex == RemoveAll(StripBraces(RemoveAll(RemoveAll(text, <<"u", "r", "n", ":">>),
                                             <<"u", "u", "i", "d", ":">>)),
                       <<"-">>)
      lit == HexLiteral(hex)
  IN IF Len(hex) # 32 \/ ~lit.ok \/ lit.negative
       THEN [ok |-> FALSE, value |-> <<>>]
       ELSE [ok |-> TRUE, value |-> Zeros(32 - Len(lit.digits)) \o lit.digits]

(* the action tags, spelled out *)
ActionChars(action) ==
  CASE action = "confirm" -> <<"c", "o", "n", "f", "i", "r", "m">>
    [] action = "fix" -> <<"f", "i", "x">>
    [] action = "cancel" -> <<"c", "a", "n", "c", "e", "l">>
    [] action = "item_yes" -> <<"i", "t", "e", "m", "_", "y", "e", "s">>
    [] action = "item_no" -> <<"i", "t", "e", "m", "_", "n", "o">>
    [] action = "choose" -> <<"c", "h", "o", "o", "s", "e">>
    [] action = "basis_100" -> <<"b", "a", "s", "i", "s", "_", "1", "0", "0">>
    [] action = "basis_serv" -> <<"b", "a", "s", "i", "s", "_", "s", "e", "r", "v">>
    [] action = "store_costco" ->
         <<"s", "t", "o", "r", "e", "_", "c", "o", "s", "t", "c", "o">>
    [] action = "store_tj" -> <<"s", "t", "o", "r", "e", "_", "t", "j">>
    [] action = "store_target" ->
         <<"s", "t", "o", "r", "e", "_", "t", "a", "r", "g", "e", "t">>
    [] action = "store_other" ->
         <<"s", "t", "o", "r", "e", "_", "o", "t", "h", "e", "r">>
    [] action = "portion_est" ->
         <<"p", "o", "r", "t", "i", "o", "n", "_", "e", "s", "t">>
    [] action = "portion_manual" ->
         <<"p", "o", "r", "t", "i", "o", "n", "_", "m", "a", "n", "u", "a", "l">>
    [] action = "portion_skip" ->
         <<"p", "o", "r", "t", "i", "o", "n", "_", "s", "k", "i", "p">>
    [] action = "save" -> <<"s", "a", "v", "e">>
    [] action = "edit" -> <<"e", "d", "i", "t">>
    [] action = "edit_item" -> <<"e", "d", "i", "t", "_", "i", "t", "e", "m">>

(* _callback_data: f"s:{session_id}:{action}" or
   f"s:{session_id}:{action}:{payload}" *)
_callback_data(session_id, action, payload) ==
  <<"s", ":">> \o UuidStr(UuidOfRow(session_id)) \o <<":">> \o ActionChars(action)
    \o (IF payload = NoPayload THEN <<>> ELSE <<":">> \o payload)

(* str.split(sep, maxsplit) for a one-character separator *)
RECURSIVE SplitMax(_, _, _, _)
SplitMax(s, sep, maxsplit, cur) ==
  IF s = <<>> THEN <<cur>>
  ELSE IF maxsplit = 0 THEN <<cur \o s>>
  ELSE IF Head(s) = sep THEN <<cur>> \o SplitMax(Tail(s), sep, maxsplit - 1, <<>>)
  ELSE SplitMax(Tail(s), sep, maxsplit, Append(cur, Head(s)))

ParseNothing == [ok |-> FALSE, session_id |-> <<>>, action |-> <<>>, payload |-> <<>>]

ParseCallbackSplitTwice(data) ==
  IF ~StartsWith(data, <<"s", ":">>) THEN ParseNothing
  ELSE LET parts == SplitMax(data, ":", 2, <<>>)
       IN IF Len(parts) \notin {3, 4} THEN ParseNothing
          ELSE IF ~ParseUuid(parts[2]).ok THEN ParseNothing
          ELSE [ok |-> TRUE, session_id |-> ParseUuid(parts[2]).value,
                action |-> parts[3],
                payload |-> IF Len(parts) = 4 THEN parts[4] ELSE NoPayload]

(* _parse_session_callback *)
_parse_session_callback(data) ==
  IF ~StartsWith(data, <<"s", ":">>) THEN ParseNothing
  ELSE LET parts == SplitMax(data, ":", 3, <<>>)
       IN IF Len(parts) \notin {3, 4} THEN ParseNothing
          ELSE IF ~ParseUuid(parts[2]).ok THEN ParseNothing
          ELSE [ok |-> TRUE, session_id |-> ParseUuid(parts[2]).value,
                action |-> parts[3],
                payload |-> IF Len(parts) = 4 THEN parts[4] ELSE NoPayload]

(* every tag a button of the state machine carries *)
ButtonActions == CallbackActions \cup StoreActions \cup {"save"}

(* str(index) of a candidate or item index *)
IndexPayloads == {<<"0">>, <<"1">>, <<"1", "2">>}

(* callback data no button carries *)
HistoryData == <<"h", ":">> \o UuidStr(UuidOfRow(1))
ShortIdData == <<"s", ":", "x", ":">> \o ActionChars("confirm")
NonHexIdData == <<"s", ":">> \o Zeros(31) \o <<"g", ":">> \o ActionChars("confirm")
NoActionData == <<"s", ":">> \o UuidStr(UuidOfRow(1))
BracedIdData ==
  <<"s", ":", "{">> \o UuidStr(UuidOfRow(1)) \o <<"}", ":">> \o ActionChars("save")
SignedIdData ==
  <<"s", ":", "+">> \o Zeros(30) \o <<"1", ":">> \o ActionChars("cancel")

CraftedData ==
  {<<>>, HistoryData, ShortIdData, NonHexIdData, NoActionData, BracedIdData,
   SignedIdData}

(* telegram_webhook receives the data of a button the bot sent *)
ButtonCallback(session_id, action, payload) ==
  /\ parsed' = [sent |-> TRUE, session_id |-> session_id, action |-> action,
                payload |-> payload,
                data |-> _callback_data(session_id, action, payload),
                result |-> _parse_session_callback(
                             _callback_data(session_id, action, payload))]
  /\ UNCHANGED <<sessions, photos, photoSeq, library, meal_logs, meal_items,
                 audit, clock, offered, writes, incs, cache, call, ranked, lookup, flight, update>>

(* telegram_webhook receives other callback data *)
OtherCallback(data) ==
  /\ parsed' = [sent |-> FALSE, session_id |-> NULL, action |-> "",
                payload |-> <<>>, data |-> data,
                result |-> _parse_session_callback(data)]
  /\ UNCHANGED <<sessions, photos, photoSeq, library, meal_logs, meal_items,
                 audit, clock, offered, writes, incs, cache, call, ranked, lookup, flight, update>>

NextCallback ==
  \/ \E session_id \in 1..MaxSessions, action \in ButtonActions,
        payload \in {NoPayload} \cup IndexPayloads :
       ButtonCallback(session_id, action, payload)
  \/ \E data \in CraftedData : OtherCallback(data)

SpecCallback == Init /\ [][NextCallback]_vars

(* the part of callback data between the first and the second colon *)
IdPart(data) ==
  LET parts == SplitMax(data, ":", 2, <<>>)
  IN IF Len(parts) >= 2 THEN parts[2] ELSE <<>>

(* the 32 hexadecimal digits of a UUID, with or without hyphens and braces *)
IsUuidText(text) ==
  LET hex == RemoveAll(StripBraces(text), <<"-">>)
  IN Len(hex) = 32 /\ \A i \in 1..32 : IsHex(hex[i])

(* the data of a button parses to the session id, tag and payload that
   built it *)
RoundTrips ==
  parsed.sent =>
    /\ parsed.result.ok
    /\ parsed.result.session_id = UuidOfRow(parsed.session_id)
    /\ parsed.result.action = ActionChars(parsed.action)
    /\ parsed.result.payload = parsed.payload

(* C27 as stated: button data round-trips, and data that does not start
   with s: or whose id is not a UUID parses to nothing. *)
C27_Original ==
  /\ RoundTrips
  /\ (~parsed.sent /\ (~StartsWith(parsed.data, <<"s", ":">>)
                         \/ ~IsUuidText(IdPart(parsed.data))))
       => ~parsed.result.ok

(* after dropping hyphens and enclosing braces the text is not 32 characters
   long, or holds a character that is neither a hexadecimal digit nor one
   of the characters int(text, 16) reads besides digits *)
NotReadAsUuid(text) ==
  LET hex == RemoveAll(StripBraces(text), <<"-">>)
  IN \/ Len(hex) # 32
     \/ \E i \in 1..Len(hex) : ~IsHex(hex[i]) /\ hex[i] \notin {"+", "_", "x", "X", " "}

(* C27: button data round-trips: for every session id, action tag and
   optional payload, _parse_session_callback of the string built by
   _callback_data is that session id, tag and payload.  Data that does not
   start with s:, or whose id is not 32 characters of a hexadecimal number,
   parses to nothing; an id that uuid.UUID reads although it is no UUID
   text, as 31 digits behind a plus sign, parses to the session id of that
   value. *)
C27_CallbackRoundTrip ==
  /\ RoundTrips
  /\ (~parsed.sent /\ (~StartsWith(parsed.data, <<"s", ":">>)
                         \/ NotReadAsUuid(IdPart(parsed.data))))
       => ~parsed.result.ok
  /\ parsed.data = SignedIdData
       => /\ parsed.result.ok
          /\ parsed.result.session_id = UuidOfRow(1)
          /\ parsed.result.action = ActionChars("cancel")

(* the edit_item button of item 12 of session 2 was pressed and parsed *)
C27_Witness ==
  /\ parsed.sent
  /\ parsed.session_id = 2
  /\ parsed.action = "edit_item"
  /\ parsed.payload = <<"1", "2">>
  /\ parsed.result.ok
  /\ parsed.result.session_id = UuidOfRow(2)
  /\ parsed.result.payload = <<"1", "2">>

(* the user who owns the meal log of a meal item *)
OwnerOfItem(item_id) == meal_logs[meal_items[item_id].meal_log_id].user_id

(* C28: operations of different users are independent: an update sent by a
   user never edits another user's meal items; every edit of a meal item
   that was recorded was made by the user who owns the meal, and every edit
   session belongs to the owner of the meal it edits. *)
C28_UsersIndependent ==
  /\ \A i \in 1..Len(audit) :
       audit[i].entity_id \in 1..Len(meal_items)
         => OwnerOfItem(audit[i].entity_id) = audit[i].user_id
  /\ \A session_id \in SessionIds :
       (IsEditSession(session_id) /\ sessions[session_id].status = STATUS_COMPLETED)
         => meal_logs[sessions[session_id].context.meal_id].user_id
              = sessions[session_id].user_id

(* the states the transition table lists for a button action *)
ListedStates(action) ==
  CASE action \in {"confirm", "fix"} -> {"AWAITING_CONFIRMATION"}
    [] action \in {"item_yes", "item_no"} -> {"AWAITING_ITEM_CONFIRMATION"}
    [] action = "choose" -> {"AWAITING_ITEM_SELECTION"}
    [] action \in StoreActions -> {"AWAITING_MANUAL_STORE"}
    [] action \in {"basis_100", "basis_serv"} -> {"AWAITING_MANUAL_BASIS"}
    [] action \in {"portion_est", "portion_manual", "portion_skip"} ->
         {"AWAITING_PORTION_CHOICE"}
    [] action \in {"save", "edit"} -> {"AWAITING_SAVE"}
    [] action = "edit_item" -> {"AWAITING_EDIT_CHOICE", "EDIT_SELECT_ITEM"}

(* C29: a button action takes effect only in the state the transition
   table lists for it; the button of an older message, pressed while the
   session is in another state, leaves the session's status and context
   unchanged. *)
C29_ButtonsOnlyInListedState ==
  [][\A session_id \in SessionIds :
       /\ \A action \in CallbackActions \ {"cancel"} :
            (/\ sessions[session_id].status \notin ListedStates(action)
             /\ \E payload \in PayloadsOf(action), srch \in SearchesOf(action),
                   fetch \in FetchesOf(action) :
                  /\ Pressable(session_id, action, payload)
                  /\ SessionCallback(session_id, action, payload, srch, fetch))
            => sessions'[session_id] = sessions[session_id]
       /\ (/\ sessions[session_id].status \notin ListedStates("save")
           /\ Pressable(session_id, "save", NoPayload)
           /\ SaveCallback(session_id))
            => sessions'[session_id] = sessions[session_id]]_vars

(***************************************************************************)
(* The webhook from the summary of a photo session on                      *)
(***************************************************************************)

(* session writes followed from the summary: enough to press edit, a button
   of an older message, an item to edit, and to enter its grams *)
SummaryWrites == 4

(* user 2's photo session of two items as _show_summary leaves it: every
   item resolved by 'yes' and 'use estimate', the summary sent *)
InitSummary ==
  /\ sessions = <<NewSession(2, 1, "AWAITING_SAVE", SavedPhotoContext)>>
  /\ photos = {1}
  /\ photoSeq = 1
  /\ library = InitialLibrary
  /\ meal_logs = <<>>
  /\ meal_items = <<>>
  /\ audit = <<>>
  /\ clock = 0
  /\ offered = << {Button("confirm"), Button("fix"), Button("cancel"),
                   Button("item_yes"), Button("item_no"), Button("portion_est"),
                   Button("portion_manual"), Button("portion_skip"),
                   Button("save"), Button("edit")} >>
  /\ writes = MaxWrites - SummaryWrites
  /\ incs = [w \in Workers |-> NoIncrement]
  /\ cache = NoEntries
  /\ call = NoCall
  /\ ranked = NoSearch
  /\ parsed = NoData
  /\ lookup = NoLookup
  /\ flight = [w \in Workers |-> NoFlight]
  /\ update = NoUpdate

SpecSummary == InitSummary /\ [][Next]_vars

(* the state InitSummary starts from, as the webhook reaches it from the
   first photo *)
SummaryReached ==
  /\ sessions = <<NewSession(2, 1, "AWAITING_SAVE", SavedPhotoContext)>>
  /\ photos = {1}
  /\ library = InitialLibrary
  /\ meal_logs = <<>>
  /\ offered[1] = {Button("confirm"), Button("fix"), Button("cancel"),
                   Button("item_yes"), Button("item_no"), Button("portion_est"),
                   Button("portion_manual"), Button("portion_skip"),
                   Button("save"), Button("edit")}

(* C30: a photo session is in AWAITING_SAVE only after the item cursor has
   passed every item: whenever the status is AWAITING_SAVE, current_index
   is at least the number of items and every item has grams recorded or is
   marked skipped. *)
C30_SummaryOnlyPastAllItems ==
  \A session_id \in SessionIds :
    (/\ sessions[session_id].context.flow = "photo"
     /\ sessions[session_id].status = "AWAITING_SAVE")
    => LET context == sessions[session_id].context
       IN /\ context.current_index >= Len(context.items)
          /\ \A i \in 1..Len(context.items) :
               context.items[i].grams # NONE \/ context.items[i].skipped

(* ------------------------------------------------------------------ *)
(* The resolved items of a summary                                      *)
(* ------------------------------------------------------------------ *)
(* the positions of the items a summary keeps *)
Resolvable(context) ==
  {i \in 1..Len(context.items) :
     /\ ~context.items[i].skipped
     /\ context.items[i].food.set
     /\ context.items[i].grams # NONE}

(* resolved_items lists the resolvable items once each, in item order, with
   the item's own grams and food *)
ResolvedFromItems(context) ==
  LET resolved == context.resolved_items
  IN /\ Len(resolved) = Cardinality(Resolvable(context))
     /\ \A k \in 1..Len(resolved) :
          /\ resolved[k].item_index + 1 \in Resolvable(context)
          /\ k > 1 => resolved[k - 1].item_index < resolved[k].item_index
          /\ LET item == context.items[resolved[k].item_index + 1]
             IN /\ resolved[k].grams = item.grams
                /\ resolved[k].macros = item.food.macros
                /\ resolved[k].food_id = item.food.food_id
                /\ resolved[k].source_type = item.food.source_type
                /\ resolved[k].source_ref = item.food.source_ref
                /\ resolved[k].basis = item.food.basis
                /\ resolved[k].serving_size_g = item.food.serving_size_g

(* the session a save completes in this step *)
SavedNow(session_id) ==
  /\ session_id \in SessionIds
  /\ sessions[session_id].status # STATUS_COMPLETED
  /\ sessions'[session_id].status = STATUS_COMPLETED
  /\ Len(meal_logs') = Len(meal_logs) + 1

(* every summary lists exactly the resolvable items of its session *)
SummaryListsResolvable ==
  \A session_id \in SessionIds :
    sessions[session_id].status = "AWAITING_SAVE"
    => ResolvedFromItems(sessions[session_id].context)

(* C31: whenever a session is persisted in AWAITING_SAVE its resolved_items
   are exactly the items that are not skipped and have a food and grams, in
   item order, each with the index, grams and food macros of its item; and a
   save writes one meal item per such item, so a skipped item or one without
   food or grams is never saved. *)
C31_ResolvedItemsExact ==
  /\ []SummaryListsResolvable
  /\ [][\A session_id \in 1..MaxSessions :
          SavedNow(session_id)
          => Len(meal_items') - Len(meal_items)
               = Cardinality(Resolvable(sessions[session_id].context))]_vars

(* ------------------------------------------------------------------ *)
(* Editing the grams of a summary item                                  *)
(* ------------------------------------------------------------------ *)
(* an update of the item at position i (from 1) that changes its grams only *)
OnlyGramsOf(before, after, i, grams) ==
  /\ Len(after) = Len(before)
  /\ \A j \in 1..Len(before) :
       IF j = i THEN after[j] = [before[j] EXCEPT !.grams = grams]
       ELSE after[j] = before[j]

(* what a valid grams text does to a session in AWAITING_EDIT_GRAMS *)
EditGramsEffect(session, text) ==
  LET context == session.context
      grams == _parse_grams(text)
      r == _handle_photo_text(session, text, EmptySearch)
      chosen == context.edit_index + 1
  IN /\ r.upd
     /\ r.status = "AWAITING_SAVE"
     /\ IF InRange(context.resolved_items, context.edit_index)
          THEN LET source == context.resolved_items[chosen].item_index + 1
               IN /\ OnlyGramsOf(context.items, r.context.items, source, grams)
                  /\ \E k \in 1..Len(r.context.resolved_items) :
                       /\ r.context.resolved_items[k].item_index + 1 = source
                       /\ r.context.resolved_items[k].grams = grams
                  /\ \A k \in 1..Len(r.context.resolved_items) :
                       r.context.resolved_items[k].item_index + 1 # source
                       => r.context.resolved_items[k].grams
                            = context.items[r.context.resolved_items[k].item_index + 1].grams
          ELSE r.context.items = context.items

(* C32: in AWAITING_EDIT_GRAMS a valid grams text sets the grams of the
   chosen resolved item and of the item spec it was built from to the same
   new value, leaves every other item unchanged and returns the session to
   AWAITING_SAVE; with the chosen index outside the resolved list no item
   changes and the session still returns to AWAITING_SAVE. *)
C32_EditGramsFrame ==
  \A session_id \in SessionIds :
    (/\ sessions[session_id].context.flow = "photo"
     /\ sessions[session_id].status = "AWAITING_EDIT_GRAMS")
    => \A text \in ValidGramsTexts :
         EditGramsEffect(sessions[session_id], text)

(* ------------------------------------------------------------------ *)
(* 'Use estimate' over the gram ranges the vision model may return      *)
(* ------------------------------------------------------------------ *)
(* estimated_grams_low / estimated_grams_high: None or an integer >= 0 *)
EstimateBounds == {NONE, 0, 75, 100}

(* session writes followed from the portion choice: enough to record the
   grams, save the meal and start another flow *)
EstimateWrites == 4

(* the context of user 2's one-item photo session after 'confirm' found a
   provider hit and 'yes' fetched its details *)
PortionContext(low, high) ==
  LET c0 == [BaseContext("photo", 2) EXCEPT
               !.items = <<ItemSpec(VisionItem(TxtChicken, low, high))>>,
               !.candidate_options = SavedPhotoOptions]
  IN _set_item_food(c0, FetchedOption(SavedPhotoOptions[1]))

(* the buttons sent up to the portion prompt *)
PortionButtons(context) ==
  {Button("confirm"), Button("fix"), Button("cancel"), Button("item_yes"),
   Button("item_no"), Button("portion_manual"), Button("portion_skip")}
    \cup (IF _estimate_grams(_current_item(context)) \in {NONE, 0} THEN {}
          ELSE {Button("portion_est")})

PortionPrompt(low, high) ==
    /\ sessions = <<NewSession(2, 1, "AWAITING_PORTION_CHOICE",
                               PortionContext(low, high))>>
    /\ photos = {1}
    /\ photoSeq = 1
    /\ library = InitialLibrary
    /\ meal_logs = <<>>
    /\ meal_items = <<>>
    /\ audit = <<>>
    /\ clock = 0
    /\ offered = <<PortionButtons(PortionContext(low, high))>>
    /\ writes = MaxWrites - EstimateWrites
    /\ incs = [w \in Workers |-> NoIncrement]
    /\ cache = NoEntries
    /\ call = NoCall
    /\ ranked = NoSearch
    /\ parsed = NoData
    /\ lookup = NoLookup
    /\ flight = [w \in Workers |-> NoFlight]
    /\ update = NoUpdate

InitEstimate ==
  \E low \in EstimateBounds, high \in EstimateBounds : PortionPrompt(low, high)

SpecEstimate == InitEstimate /\ [][Next]_vars

(* the state InitEstimate starts from for the range 100..200, as the
   webhook reaches it from the first photo *)
PortionReached ==
  /\ sessions = <<NewSession(2, 1, "AWAITING_PORTION_CHOICE",
                             PortionContext(100, 200))>>
  /\ photos = {1}
  /\ library = InitialLibrary
  /\ offered = <<PortionButtons(PortionContext(100, 200))>>

(* grams is the mean of low and high as an integer: exact, or the nearest
   integer with a half going to the even one *)
IsMean(grams, low, high, exact) ==
  IF exact THEN 2 * grams = low + high
  ELSE /\ 2 * grams - (low + high) \in {-1, 0, 1}
       /\ 2 * grams # low + high => grams % 2 = 0

(* the cursor moved past the current item, to the next item's prompt or to
   the summary *)
Advanced(context, r) ==
  /\ r.upd
  /\ r.context.current_index = context.current_index + 1
  /\ r.status = IF r.context.current_index < Len(context.items)
                  THEN _prompt_item_confirmation(r.context, EmptySearch).status
                  ELSE "AWAITING_SAVE"

(* nothing recorded, the manual grams prompt instead *)
AskedForGrams(context, r) ==
  /\ r.upd
  /\ r.status = "AWAITING_MANUAL_GRAMS"
  /\ r.context = context

(* 'Use estimate' on the current item of a session in AWAITING_PORTION_CHOICE;
   usable tells when a bound counts *)
UseEstimate(session_id, exact) ==
  LET context == sessions[session_id].context
      item == _current_item(context)
      k == context.current_index + 1
      r == handle_callback(session_id, "portion_est", NoPayload, EmptySearch, TRUE)
      high == item.high # NONE /\ (exact \/ item.high > 0)
      low == item.low # NONE /\ (exact \/ item.low > 0)
  IN IF item.low # NONE /\ high
       THEN /\ Advanced(context, r)
            /\ IsMean(r.context.items[k].grams, item.low, item.high, exact)
     ELSE IF low
       THEN /\ Advanced(context, r)
            /\ r.context.items[k].grams = item.low
     ELSE AskedForGrams(context, r)

AtPortionChoice(session_id) ==
  /\ sessions[session_id].context.flow = "photo"
  /\ sessions[session_id].status = "AWAITING_PORTION_CHOICE"
  /\ InRange(sessions[session_id].context.items,
             sessions[session_id].context.current_index)

(* C33 (as stated): the average of low and high when both are present, low
   alone when high is missing, nothing and the manual grams prompt when
   there is no estimate *)
C33_Original ==
  \A session_id \in SessionIds :
    AtPortionChoice(session_id) => UseEstimate(session_id, TRUE)

(* C33 (amended): 'Use estimate' in AWAITING_PORTION_CHOICE records as the
   current item's grams the average of low and high rounded to an integer
   (a half to the even one) when low is present and high is present and
   positive, otherwise low alone when low is present and positive, and then
   advances the cursor; in every other case it records nothing, leaves
   current_index unchanged and moves to AWAITING_MANUAL_GRAMS. *)
C33_UseEstimate ==
  \A session_id \in SessionIds :
    AtPortionChoice(session_id) => UseEstimate(session_id, FALSE)

(* the estimate of a range with an odd sum (75..100) was recorded and the
   cursor advanced to the summary *)
C33_Witness ==
  \E session_id \in SessionIds :
    LET context == sessions[session_id].context
    IN /\ sessions[session_id].status = "AWAITING_SAVE"
       /\ context.current_index = 1
       /\ Len(context.items) = 1
       /\ context.items[1].low = 75
       /\ context.items[1].high = 100
       /\ context.items[1].grams = 88

(* ------------------------------------------------------------------ *)
(* Typed gram amounts                                                   *)
(* ------------------------------------------------------------------ *)
(* "0.5": a positive amount below one gram *)
TxtHalf == <<"0", ".", "5">>

(* the one-item photo session at its portion prompt (range 100..200) *)
InitGrams == PortionPrompt(100, 200)

(* the webhook with "0.5" among the texts a user may send *)
NextGrams ==
  \/ Next
  \/ \E user_id \in Users : \E srch \in TextSearches(user_id) :
       TextMessage(user_id, TxtHalf, srch)

SpecGrams == InitGrams /\ [][NextGrams]_vars

(* a stored gram amount: absent or an integer >= 1 *)
PositiveOrAbsent(grams) == grams = NONE \/ grams >= 1

(* C34: every text accepted as a gram amount (manual serving size, manual
   portion grams, in-session edit grams, saved-meal edit grams) is stored
   as an integer >= 1, so no item, manual food or meal item ever has grams
   or a serving size of 0 or less from typed input. *)
C34_TypedGramsPositive ==
  /\ \A session_id \in SessionIds :
       LET context == sessions[session_id].context
       IN /\ \A i \in 1..Len(context.items) : PositiveOrAbsent(context.items[i].grams)
          /\ \A i \in 1..Len(context.resolved_items) :
               PositiveOrAbsent(context.resolved_items[i].grams)
          /\ PositiveOrAbsent(context.manual.serving_size_g)
  /\ \A i \in 1..Len(library) : PositiveOrAbsent(library[i].serving_size_g)
  /\ \A i \in 1..Len(meal_items) : meal_items[i].grams >= 1

(* ------------------------------------------------------------------ *)
(* Candidate options over a larger library and up to three provider     *)
(* hits                                                                 *)
(* ------------------------------------------------------------------ *)
(* rows of the library when the photo arrives *)
MaxCandidates == 4

(* session writes followed from the first prompt *)
CandidateWrites == 2

CandidateFoods ==
  {[SeedFood EXCEPT !.user_id = user_id, !.name = name] :
     user_id \in Users, name \in {TxtRice, TxtChicken}}

(* NutritionService.search(label, limit=3): the provider is asked for a
   page of 3 and answers with at most that many foods, or fails *)
ProviderHits ==
  {[ok |-> FALSE, foods |-> <<>>]}
    \cup {[ok |-> TRUE, foods |-> [i \in 1..k |-> FdcSummary(10 + i)]] : k \in 0..3}

(* user 1 has sent a photo of rice; the library holds earlier foods of
   both users *)
InitCandidates ==
  /\ sessions = <<NewSession(1, 1, "AWAITING_CONFIRMATION",
                    [BaseContext("photo", 1) EXCEPT
                       !.items = <<ItemSpec(VisionItem(TxtRice, 75, 100))>>])>>
  /\ photos = {1}
  /\ photoSeq = 1
  /\ library \in [1..MaxCandidates -> CandidateFoods]
  /\ meal_logs = <<>>
  /\ meal_items = <<>>
  /\ audit = <<>>
  /\ clock = 0
  /\ offered = << {Button("confirm"), Button("fix"), Button("cancel")} >>
  /\ writes = MaxWrites - CandidateWrites
  /\ incs = [w \in Workers |-> NoIncrement]
  /\ cache = NoEntries
  /\ call = NoCall
  /\ ranked = NoSearch
  /\ parsed = NoData
  /\ lookup = NoLookup
  /\ flight = [w \in Workers |-> NoFlight]
  /\ update = NoUpdate

(* the webhook, with a provider that may return up to three hits *)
NextCandidates ==
  \/ Next
  \/ \E session_id \in 1..MaxSessions, srch \in ProviderHits :
       /\ Pressable(session_id, "confirm", NoPayload)
       /\ SessionCallback(session_id, "confirm", NoPayload, srch, TRUE)

SpecCandidates == InitCandidates /\ [][NextCandidates]_vars

(* the user's library foods whose name contains the label *)
MatchingFoods(user_id, label) ==
  {i \in 1..Len(library) :
     /\ library[i].user_id = user_id
     /\ Contains(Lower(library[i].name), Lower(label))}

(* up to 3 library candidates, then the provider's hits, then the manual
   option and nothing else *)
OptionsAsClaimed(options, user_id, label, srch) ==
  LET matching == MatchingFoods(user_id, label)
      nlib == IF Cardinality(matching) < 3 THEN Cardinality(matching) ELSE 3
      nfdc == IF srch.ok THEN Len(srch.foods) ELSE 0
  IN /\ nlib <= 3 /\ nfdc <= 3
     /\ Len(options) = nlib + nfdc + 1
     /\ \A i \in 1..nlib :
          /\ options[i].type = "library"
          /\ options[i].food_id \in matching
          /\ \A j \in 1..nlib : options[j].food_id = options[i].food_id => j = i
     /\ \A i \in 1..nfdc :
          /\ options[nlib + i].type = "fdc"
          /\ options[nlib + i].fdc_id = srch.foods[i].fdc_id
     /\ options[Len(options)].type = "manual"

(* what 'confirm' does for the first item with these provider hits *)
ConfirmAsClaimed(session_id, srch) ==
  LET context == sessions[session_id].context
      r == handle_callback(session_id, "confirm", NoPayload, srch, TRUE)
      options == r.context.candidate_options
      label == _item_label(context.items[1])
  IN /\ r.upd
     /\ OptionsAsClaimed(options, context.user_id, label, srch)
     /\ IF Len(options) = 1
          THEN /\ r.status = "AWAITING_MANUAL_NAME"
               /\ r.context.manual.target = "photo"
               /\ r.context.manual.item_index = r.context.current_index
          ELSE /\ r.status = "AWAITING_ITEM_CONFIRMATION"
               /\ options[1].type \in {"library", "fdc"}

(* C35: the candidate options built for an item are at most 3 library
   candidates, followed by at most 3 external-database candidates, followed
   by exactly one manual option in last position; the session enters
   AWAITING_ITEM_CONFIRMATION only when the first option is a library or
   external-database candidate, and goes to AWAITING_MANUAL_NAME with the
   manual draft targeting the current item when the manual option is the
   only one. *)
C35_CandidateOptions ==
  \A session_id \in SessionIds :
    LET session == sessions[session_id]
    IN /\ session.status = "AWAITING_ITEM_CONFIRMATION"
            => /\ session.context.candidate_options # <<>>
               /\ session.context.candidate_options[1].type \in {"library", "fdc"}
       /\ (/\ session.context.flow = "photo"
           /\ NonTerminal(session)
           /\ session.context.items # <<>>)
            => \A srch \in ProviderHits : ConfirmAsClaimed(session_id, srch)

(* three of the user's four matching foods and three provider hits were
   offered, the manual option last *)
C35_Witness ==
  \E session_id \in SessionIds :
    LET context == sessions[session_id].context
    IN /\ sessions[session_id].status = "AWAITING_ITEM_CONFIRMATION"
       /\ Cardinality(MatchingFoods(context.user_id, TxtRice)) = 4
       /\ Len(context.candidate_options) = 7
       /\ context.candidate_options[3].type = "library"
       /\ context.candidate_options[6].type = "fdc"
       /\ context.candidate_options[7].type = "manual"

(* ------------------------------------------------------------------ *)
(* Meal service: the base macros of an item                             *)
(* ------------------------------------------------------------------ *)
MacroKeys == {"calories", "protein_g", "fat_g", "carbs_g"}

(* items handed to compute_summary / save_meal: keys is the set of macro
   keys the dict holds *)
LookupItems ==
  [keys : {MacroKeys, MacroKeys \ {"carbs_g"}, {}},
   label : {TxtRice, <<>>},
   name : {TxtChicken, <<>>},
   macros : {MacroOf(150, 5, 3, 27)},
   basis : {"", "perServing"},
   serving_size_g : {NONE, 40}]

(* answers of NutritionService.search(label, limit=1): the exception left
   after the retries, no hit, one hit *)
LookupSearches ==
  { [ok |-> FALSE, foods |-> <<>>],
    [ok |-> TRUE, foods |-> <<>>],
    [ok |-> TRUE, foods |-> <<FdcSummary(11)>>] }

(* answers of NutritionService.get_food: the exception, or the details *)
LookupDetails ==
  { [ok |-> FALSE, macros |-> MacroZero, serving_size_g |-> NONE],
    [ok |-> TRUE, macros |-> MacroOf(165, 31, 4, 0), serving_size_g |-> NONE],
    [ok |-> TRUE, macros |-> MacroOf(130, 3, 0, 28), serving_size_g |-> 30] }

HasMacrosAnyKey(item) == item.keys # {}

_has_macros(item) == MacroKeys \subseteq item.keys

(* what _resolve_base_macros returned (ok = FALSE: it raised) *)
BaseMacros(ok, macros, basis, serving_size_g) ==
  [ok |-> ok, macros |-> macros, basis |-> basis, serving_size_g |-> serving_size_g]

(* _lookup_fdc_macros: the provider calls made and the result *)
_lookup_fdc_macros(label, srch, fetch) ==
  LET searched == <<[query |-> label, limit |-> 1, answer |-> srch]>>
  IN IF ~srch.ok
       THEN [searches |-> searched, fetches |-> <<>>,
             result |-> BaseMacros(FALSE, MacroZero, "", NONE)]
     ELSE IF srch.foods = <<>>
       THEN [searches |-> searched, fetches |-> <<>>,
             result |-> BaseMacros(TRUE, MacroZero, "per100g", NONE)]
     ELSE [searches |-> searched,
           fetches |-> <<[fdc_id |-> srch.foods[1].fdc_id, answer |-> fetch]>>,
           result |-> IF fetch.ok
                        THEN BaseMacros(TRUE, fetch.macros, "per100g",
                                        fetch.serving_size_g)
                        ELSE BaseMacros(FALSE, MacroZero, "", NONE)]

_resolve_base_macros(item, srch, fetch) ==
  IF _has_macros(item)
    THEN [searches |-> <<>>, fetches |-> <<>>,
          result |-> BaseMacros(TRUE, item.macros,
                                IF item.basis # "" THEN item.basis ELSE "per100g",
                                item.serving_size_g)]
  ELSE _lookup_fdc_macros(IF item.label # <<>> THEN item.label
                          ELSE IF item.name # <<>> THEN item.name ELSE TxtItem,
                          srch, fetch)

(* a call of _resolve_base_macros with the provider answering as given *)
ResolveCall(item, srch, fetch) ==
  /\ lookup' = [done |-> TRUE, item |-> item,
                searches |-> _resolve_base_macros(item, srch, fetch).searches,
                fetches |-> _resolve_base_macros(item, srch, fetch).fetches,
                result |-> _resolve_base_macros(item, srch, fetch).result]
  /\ UNCHANGED <<sessions, photos, photoSeq, library, meal_logs, meal_items,
                 audit, clock, offered, writes, incs, cache, call, ranked,
                 parsed, flight, update>>

NextResolve ==
  \E item \in LookupItems, srch \in LookupSearches, fetch \in LookupDetails :
    ResolveCall(item, srch, fetch)

SpecResolve == Init /\ [][NextResolve]_vars

(* the label the provider is searched for *)
LabelOf(item) ==
  IF item.label # <<>> THEN item.label
  ELSE IF item.name # <<>> THEN item.name
  ELSE TxtItem

(* C36: an item that carries all four macro values is never looked up at
   the provider; an item lacking them is resolved by one search for its
   label limited to 1 result: with no hit it contributes zero macros on a
   per100g basis with no serving size, with a hit the top hit's detail is
   fetched and its macros, basis per100g and the provider's serving size
   are used. *)
C36_BaseMacros ==
  lookup.done =>
    IF MacroKeys \subseteq lookup.item.keys
      THEN /\ lookup.searches = <<>>
           /\ lookup.fetches = <<>>
           /\ lookup.result.ok
           /\ lookup.result.macros = lookup.item.macros
    ELSE /\ Len(lookup.searches) = 1
         /\ lookup.searches[1].query = LabelOf(lookup.item)
         /\ lookup.searches[1].limit = 1
         /\ LET hits == lookup.searches[1].answer
            IN /\ (hits.ok /\ hits.foods = <<>>)
                    => /\ lookup.fetches = <<>>
                       /\ lookup.result = BaseMacros(TRUE, MacroZero, "per100g", NONE)
               /\ (hits.ok /\ hits.foods # <<>>)
                    => /\ Len(lookup.fetches) = 1
                       /\ lookup.fetches[1].fdc_id = hits.foods[1].fdc_id
                       /\ lookup.fetches[1].answer.ok
                            => lookup.result
                                 = BaseMacros(TRUE, lookup.fetches[1].answer.macros,
                                              "per100g",
                                              lookup.fetches[1].answer.serving_size_g)

(* an item with three of the four macro keys was looked up and took the
   macros and the serving size of the provider's top hit *)
C36_Witness ==
  /\ lookup.done
  /\ lookup.item.keys = MacroKeys \ {"carbs_g"}
  /\ Len(lookup.fetches) = 1
  /\ lookup.result.ok
  /\ lookup.result.serving_size_g = 30
  /\ lookup.result.macros = MacroOf(130, 3, 0, 28)

(* ------------------------------------------------------------------ *)
(* Photo deliveries handled at the same time                            *)
(* ------------------------------------------------------------------ *)
(* telegram_webhook, photo branch up to its first await: the guard on the
   user's active session; the handler is then suspended in the download
   and the vision call *)
PhotoChecked(w, user_id, vision_items) ==
  /\ flight[w].pc = "idle"
  /\ IF get_active_session(user_id) # NULL THEN UNCHANGED vars
     ELSE /\ flight' = [flight EXCEPT ![w] =
                          [NoFlight EXCEPT !.pc = "photo", !.user_id = user_id,
                                           !.items = vision_items]]
          /\ UNCHANGED <<sessions, photos, photoSeq, library, meal_logs, meal_items,
                         audit, clock, offered, writes, incs, cache, call, ranked,
                         parsed, lookup, update>>

(* the download or the vision call raised: an apology, nothing created *)
PhotoFailed(w) ==
  /\ flight[w].pc = "photo"
  /\ flight' = [flight EXCEPT ![w] = NoFlight]
  /\ UNCHANGED <<sessions, photos, photoSeq, library, meal_logs, meal_items,
                 audit, clock, offered, writes, incs, cache, call, ranked,
                 parsed, lookup, update>>

(* the vision call returned: start_session, without a second look at the
   user's sessions *)
PhotoStarted(w) ==
  /\ flight[w].pc = "photo"
  /\ StartSessionRows(flight[w].user_id, flight[w].items)
  /\ flight' = [flight EXCEPT ![w] = NoFlight]
  /\ UNCHANGED <<incs, cache, call, ranked, parsed, lookup, update>>

NextPhotos ==
  \/ \E w \in Workers, user_id \in Users, vision_items \in VisionSamples :
       PhotoChecked(w, user_id, vision_items)
  \/ \E w \in Workers : PhotoFailed(w)
  \/ \E w \in Workers : PhotoStarted(w)
  \/ \E user_id \in Users : CancelCommand(user_id)

SpecPhotos == Init /\ [][NextPhotos]_vars

(* C37: the single-active-session invariant holds under interleaving: when
   two photo deliveries of one user both pass the active-session check
   before either creates its session, at most one of them creates a session
   and the user never has two active sessions. *)
C37_SingleActiveInterleaved ==
  \A user_id \in Users : Cardinality(ActiveSessionsOf(user_id)) <= 1

(* ------------------------------------------------------------------ *)
(* A cancel while a handler of the session waits for the provider       *)
(* ------------------------------------------------------------------ *)
(* the buttons whose handler goes through _prompt_item_confirmation and so
   awaits NutritionService.search in _ensure_candidates *)
SearchingActions == {"confirm", "portion_skip"}

(* handle_callback up to the await: the session row was read and found
   active, the handler is suspended in the provider call *)
CallbackSuspended(w, session_id, action) ==
  /\ flight[w].pc = "idle"
  /\ get_session(session_id) # NULL
  /\ Pressable(session_id, action, NoPayload)
  /\ sessions[session_id].context.flow = "photo"
  /\ NonTerminal(sessions[session_id])
  /\ action = "portion_skip" =>
       sessions[session_id].context.current_index + 1
         < Len(sessions[session_id].context.items)
  /\ flight' = [flight EXCEPT ![w] =
                  [NoFlight EXCEPT !.pc = "search", !.session_id = session_id,
                                   !.action = action,
                                   !.session = sessions[session_id]]]
  /\ UNCHANGED <<sessions, photos, photoSeq, library, meal_logs, meal_items,
                 audit, clock, offered, writes, incs, cache, call, ranked,
                 parsed, lookup, update>>

(* the provider answered: the handler goes on with the session as it read
   it before the await and writes its transition *)
CallbackResumed(w, srch) ==
  /\ flight[w].pc = "search"
  /\ ApplyRows(flight[w].session_id,
               _handle_photo_callback(flight[w].session, flight[w].action,
                                      NoPayload, srch, TRUE))
  /\ flight' = [flight EXCEPT ![w] = NoFlight]
  /\ UNCHANGED <<incs, cache, call, ranked, parsed, lookup, update>>

NextCancelRace ==
  \/ \E user_id \in Users, vision_items \in VisionSamples :
       PhotoMessage(user_id, "ok", vision_items)
  \/ \E w \in Workers, session_id \in 1..MaxSessions, action \in SearchingActions :
       CallbackSuspended(w, session_id, action)
  \/ \E w \in Workers, srch \in SearchOutcomes : CallbackResumed(w, srch)
  \/ \E session_id \in 1..MaxSessions :
       SessionCallback(session_id, "cancel", NoPayload, EmptySearch, TRUE)
  \/ \E user_id \in Users : CancelCommand(user_id)

(* the handlers of this race write at most CancelRaceWrites times *)
CancelRaceWrites == 4

InitCancelRace ==
  /\ sessions = <<>>
  /\ photos = {}
  /\ photoSeq = 0
  /\ library = InitialLibrary
  /\ meal_logs = <<>>
  /\ meal_items = <<>>
  /\ audit = <<>>
  /\ clock = 0
  /\ offered = <<>>
  /\ writes = MaxWrites - CancelRaceWrites
  /\ incs = [w \in Workers |-> NoIncrement]
  /\ cache = NoEntries
  /\ call = NoCall
  /\ ranked = NoSearch
  /\ parsed = NoData
  /\ lookup = NoLookup
  /\ flight = [w \in Workers |-> NoFlight]
  /\ update = NoUpdate

SpecCancelRace == InitCancelRace /\ [][NextCancelRace]_vars

(* C38: a cancelled session stays cancelled even when another transition of
   the same session was in flight: the later write of a handler that was
   suspended in the provider call when the cancel was processed does not
   put the session back into an active status. *)
C38_CancelledStaysCancelled ==
  [][\A session_id \in SessionIds :
       sessions[session_id].status = STATUS_CANCELLED
       => sessions'[session_id].status = STATUS_CANCELLED]_vars

(* ------------------------------------------------------------------ *)
(* Meal logs and their items                                            *)
(* ------------------------------------------------------------------ *)
(* C39: every persisted meal log has at least one meal item: a save for a
   session whose resolved_items list is empty (every item skipped, or the
   list missing from the context) creates no meal log. *)
C39_MealLogHasItems ==
  \A meal_log_id \in 1..Len(meal_logs) : MealItemIds(meal_log_id) # <<>>

(* ------------------------------------------------------------------ *)
(* The allow-list of Telegram user ids                                  *)
(* ------------------------------------------------------------------ *)
(* values of the TELEGRAM_ALLOWED_USER_IDS setting: unset, or a text *)
Unset == [set |-> FALSE, text |-> <<>>]
Raw(text) == [set |-> TRUE, text |-> text]
RawSamples ==
  { Unset, Raw(<<>>), Raw(<<"*">>), Raw(<<"1">>), Raw(<<"2">>),
    Raw(<<" ", "1", ",", " ", "2", " ">>), Raw(<<"1", ",", ",", "x">>),
    Raw(<<"x">>), Raw(<<"+", "1">>) }

(* config.parse_allowed_user_ids *)
parse_allowed_user_ids(raw) ==
  IF ~raw.set THEN NoAllowList
  ELSE LET cleaned == Strip(raw.text)
       IN IF cleaned = <<>> \/ cleaned = <<"*">> THEN NoAllowList
          ELSE LET chunks == SplitOn(cleaned, ",", <<>>)
                   ids == { StrToNat(Strip(chunks[i])) :
                              i \in { j \in 1..Len(chunks) :
                                        /\ Strip(chunks[j]) # <<>>
                                        /\ IsDigits(Strip(chunks[j])) } }
               IN IF ids = {} THEN NoAllowList ELSE [all |-> FALSE, ids |-> ids]

IsUserAllowedAlways(user_id, allowed) == TRUE

(* app._is_user_allowed *)
_is_user_allowed(user_id, allowed) == allowed.all \/ user_id \in allowed.ids

UpdateKinds == {"callback", "message"}

(* an update arrives: _extract_user_id gives its sender *)
Receive(user_id, kind) ==
  /\ update' = [update EXCEPT !.from_user = user_id, !.kind = kind, !.reply = ""]
  /\ UNCHANGED <<sessions, photos, photoSeq, library, meal_logs, meal_items,
                 audit, clock, offered, writes, incs, cache, call, ranked,
                 parsed, lookup, flight>>

(* the gate's branch: the refusal is sent and the webhook returns *)
Refused ==
  /\ update' = [update EXCEPT !.reply = IF update.kind = "callback"
                                          THEN "Not authorized."
                                          ELSE "This bot is private."]
  /\ UNCHANGED <<sessions, photos, photoSeq, library, meal_logs, meal_items,
                 audit, clock, offered, writes, incs, cache, call, ranked,
                 parsed, lookup, flight>>

(* the branches of telegram_webhook behind the gate *)
CallbackDelivered(user_id) ==
  \/ LibraryAddCallback(user_id)
  \/ \E meal_log_id \in 1..MaxMeals : EditCallback(user_id, meal_log_id)
  \/ \E session_id \in 1..MaxSessions :
       Pressable(session_id, "save", NoPayload) /\ SaveCallback(session_id)
  \/ \E session_id \in 1..MaxSessions, action \in CallbackActions :
       \E payload \in PayloadsOf(action), srch \in SearchesOf(action),
          fetch \in FetchesOf(action) :
         /\ Pressable(session_id, action, payload)
         /\ SessionCallback(session_id, action, payload, srch, fetch)

MessageDelivered(user_id) ==
  \/ \E outcome \in PhotoOutcomes, vision_items \in VisionSamples :
       PhotoMessage(user_id, outcome, vision_items)
  \/ \E text \in TextSamples :
       \E srch \in TextSearches(user_id) : TextMessage(user_id, text, srch)
  \/ CancelCommand(user_id)

(* telegram_webhook with its authorization gate *)
telegram_webhook ==
  /\ update.from_user # NULL
  /\ IF ~_is_user_allowed(update.from_user, update.allowed) THEN Refused
     ELSE IF update.kind = "callback" THEN CallbackDelivered(update.from_user)
     ELSE MessageDelivered(update.from_user)

(* the handlers behind the gate write at most AllowWrites times *)
AllowWrites == 3

InitAllow ==
  /\ sessions = <<>>
  /\ photos = {}
  /\ photoSeq = 0
  /\ library = InitialLibrary
  /\ meal_logs = <<>>
  /\ meal_items = <<>>
  /\ audit = <<>>
  /\ clock = 0
  /\ offered = <<>>
  /\ writes = MaxWrites - AllowWrites
  /\ incs = [w \in Workers |-> NoIncrement]
  /\ cache = NoEntries
  /\ call = NoCall
  /\ ranked = NoSearch
  /\ parsed = NoData
  /\ lookup = NoLookup
  /\ flight = [w \in Workers |-> NoFlight]
  /\ \E raw \in RawSamples :
       update = [NoUpdate EXCEPT !.allowed = parse_allowed_user_ids(raw)]

NextAllow ==
  \/ \E user_id \in Users, kind \in UpdateKinds : Receive(user_id, kind)
  \/ telegram_webhook

SpecAllow == InitAllow /\ [][NextAllow]_vars

(* the update being handled comes from a user outside a configured list *)
Outsider ==
  /\ update.from_user # NULL
  /\ ~update.allowed.all
  /\ update.from_user \notin update.allowed.ids

(* C40: when an allow-list of Telegram user ids is configured, an update
   (message or button press) from a user outside the list changes no
   state: sessions, photos, meals, library foods and the audit log stay
   as they are whatever the update contains; only a refusal is sent. *)
C40_OutsiderChangesNothing ==
  [][Outsider => UNCHANGED <<sessions, photos, photoSeq, library, meal_logs,
                             meal_items, audit, clock, offered, writes>>]_vars

(* an outsider has been refused while an allowed user's session exists *)
C40_Witness ==
  /\ Outsider
  /\ update.reply # ""
  /\ \E session_id \in SessionIds : sessions[session_id].user_id # update.from_user

====
